---- MODULE Spec2Model ----
(***************************************************************************)
(* Model of iminuit's cost functions (src/src/iminuit/cost.py): masked     *)
(* data handling, binned data preparation, least squares data packing and  *)
(* the additive combinator CostSum.                                        *)
(***************************************************************************)
EXTENDS Integers, Sequences, FiniteSets, TLC

VARIABLES
    cost,      \* SpecMasked: the MaskedCost object under test (NoCost before construction)
    outcome,   \* SpecMasked: the last operation and how it ended
    heap,      \* SpecSum: the cost objects alive, by identity (0-based position)
    last       \* SpecSum: the last addition or call and what it did

vars == <<cost, outcome, heap, last>>

(***************************************************************************)
(* Bounds of the model.                                                    *)
(***************************************************************************)
MaxN == 2        \* largest number of samples / bins / points supplied
MaxD == 3        \* largest number of stacked x rows of a LeastSquares
MaxVal == 2      \* data values are drawn from 1..MaxVal
MaxLeaves == 2   \* cost terms the user constructs in SpecSum
MaxSums == 2     \* CostSum objects built in SpecSum
MaxArg == 2      \* parameter values of a call are drawn from 1..MaxArg
MaxPar == 2      \* largest number of parameters of a NormalConstraint
MaxVerbose == 2  \* verbose levels are drawn from 0..MaxVerbose
MaxVerboseSums == 1  \* CostSum objects built in SpecVerbose
MaxAssign == 2   \* assignments through parameter views in SpecView

(***************************************************************************)
(* Floating point numbers, kept exact: a float is a reduced fraction       *)
(* <<numerator, denominator>> with a positive denominator; <<1, 0>> and    *)
(* <<-1, 0>> are the infinities and <<0, 0>> is nan.                       *)
(***************************************************************************)
Abs(i) == IF i < 0 THEN -i ELSE i

RECURSIVE Gcd(_, _)
Gcd(a, b) == IF b = 0 THEN a ELSE Gcd(b, a % b)

Float(n, d) ==
    LET g == Gcd(Abs(n), Abs(d))
        s == IF d < 0 THEN -1 ELSE 1
    IN  IF g = 0 THEN <<0, 0>> ELSE <<(s * n) \div g, (s * d) \div g>>

\* astype(np.float64) of one Python int
AsFloat(i) == <<i, 1>>

FAdd(a, b) == Float(a[1] * b[2] + b[1] * a[2], a[2] * b[2])
FSub(a, b) == Float(a[1] * b[2] - b[1] * a[2], a[2] * b[2])
FMul(a, b) == Float(a[1] * b[1], a[2] * b[2])
FDiv(a, b) == Float(a[1] * b[2], a[2] * b[1])

(***************************************************************************)
(* numpy arrays: a shape and the elements in row-major order.              *)
(***************************************************************************)
RECURSIVE Prod(_)
Prod(s) == IF s = <<>> THEN 1 ELSE Head(s) * Prod(Tail(s))

RECURSIVE Concat(_)
Concat(ss) == IF ss = <<>> THEN <<>> ELSE Head(ss) \o Concat(Tail(ss))

Range1(seq) == {seq[k] : k \in 1..Len(seq)}

Array(shape, flat) == [shape |-> shape, flat |-> flat]
EmptyArray == Array(<<0>>, <<>>)
Array1(seq) == Array(<<Len(seq)>>, seq)
Ndim(a) == Len(a.shape)
\* len(a): the leading dimension
ArrLen(a) == a.shape[1]
RowSize(a) == Prod(Tail(a.shape))
\* a[i] for a 0-based i already checked to be in range
Row(a, i) == SubSeq(a.flat, i * RowSize(a) + 1, (i + 1) * RowSize(a))
\* a[idx] for a sequence idx of 0-based row numbers in range
TakeRows(a, idx) ==
    Array(<<Len(idx)>> \o Tail(a.shape),
          Concat([k \in 1..Len(idx) |-> Row(a, idx[k])]))
\* a[:, j] of a 2-D array, 0-based j in range
Column(a, j) == Array1([i \in 1..a.shape[1] |-> a.flat[(i - 1) * a.shape[2] + j + 1]])
\* a.T of a 2-D array (a 1-D array is its own transpose)
Transpose(a) ==
    IF Ndim(a) # 2 THEN a
    ELSE Array(<<a.shape[2], a.shape[1]>>,
               [k \in 1..(a.shape[1] * a.shape[2]) |->
                   a.flat[((k - 1) % a.shape[1]) * a.shape[2] + ((k - 1) \div a.shape[1]) + 1]])
\* a[..., j] of an array with at least one axis: the j-th of every innermost group
LastAxis(a, j) ==
    LET w == a.shape[Len(a.shape)]
    IN  Array(SubSeq(a.shape, 1, Len(a.shape) - 1),
              [k \in 1..(Len(a.flat) \div w) |-> a.flat[(k - 1) * w + j + 1]])

\* an assignment drops leading axes of length one that the target lacks
RECURSIVE strip_leading_ones(_, _)
strip_leading_ones(a, n) ==
    IF Ndim(a) > n /\ a.shape[1] = 1
    THEN strip_leading_ones(Array(Tail(a.shape), a.flat), n)
    ELSE a

\* numpy broadcasting of a value to the shape of a 1-D or 2-D target
CanBroadcast(value, shape) ==
    LET src == strip_leading_ones(value, Len(shape))
    IN  /\ Ndim(src) <= Len(shape)
        /\ \A k \in 1..Ndim(src) :
              LET t == shape[Len(shape) - Ndim(src) + k]
              IN  src.shape[k] = t \/ src.shape[k] = 1
BroadcastTo(value, shape) ==
    LET src == strip_leading_ones(value, Len(shape))
        n == Len(shape)
        sh == [k \in 1..n |-> IF k <= n - Ndim(src) THEN 1 ELSE src.shape[k - (n - Ndim(src))]]
        At(r, c) ==   \* element for target position (r, c), 0-based; n = 2
            src.flat[(IF sh[1] = 1 THEN 0 ELSE r) * sh[2] + (IF sh[2] = 1 THEN 0 ELSE c) + 1]
    IN  IF n = 1
        THEN Array(shape, [k \in 1..shape[1] |-> src.flat[IF sh[1] = 1 THEN 1 ELSE k]])
        ELSE Array(shape, [k \in 1..(shape[1] * shape[2]) |->
                               At((k - 1) \div shape[2], (k - 1) % shape[2])])

(***************************************************************************)
(* Results of operations that may raise: the object as the exception (or   *)
(* the normal return) leaves it, and the exception's name ("" for none).   *)
(***************************************************************************)
Ok(c) == [c |-> c, err |-> ""]
Raise(c, e) == [c |-> c, err |-> e]

(***************************************************************************)
(* Signatures.  A user model is given by its parameter names, the first    *)
(* being the data argument.                                                *)
(***************************************************************************)
make_func_code_short(params) ==
    [co_varnames |-> params, co_argcount |-> Len(params) - 1]

make_func_code(params) == [co_varnames |-> params, co_argcount |-> Len(params)]

arguments_from_func_code(fc) == SubSeq(fc.co_varnames, 1, fc.co_argcount)

\* the parameters of a callable as inspect.signature gives them: the names of a user
\* model; none for a cost object, whose __call__ takes *args
arguments_from_inspect(obj) == IF "names" \in DOMAIN obj THEN obj.names ELSE <<>>

\* describe: the first source of names that is not empty (the docstring is the last
\* resort and is only read when the func_code and the signature give no name)
describe(callable) ==
    LET faked == IF "func_code" \in DOMAIN callable
                 THEN arguments_from_func_code(callable.func_code) ELSE <<>>
    IN  IF faked # <<>> THEN faked ELSE arguments_from_inspect(callable)

\* the parameter names of a cost object: its func_code
Signature(self) == arguments_from_func_code(self.func_code)

(***************************************************************************)
(* _norm: at least one axis, elements as floats.                           *)
(***************************************************************************)
atleast_1d(value) == IF Ndim(value) = 0 THEN Array(<<1>>, value.flat) ELSE value

norm(value) ==
    LET v == atleast_1d(value)
    IN  Array(v.shape, [k \in 1..Len(v.flat) |-> AsFloat(v.flat[k])])

(***************************************************************************)
(* Masks: None, a boolean array (1 for True) or an array of 0-based        *)
(* indices, negative ones counting from the end.                           *)
(***************************************************************************)
MaskNone == [kind |-> "None", v |-> <<>>]
MaskBool(v) == [kind |-> "bool", v |-> v]
MaskIndex(v) == [kind |-> "index", v |-> v]

RECURSIVE TrueAt(_, _)
\* the 0-based positions k >= from-1 at which the boolean array holds True
TrueAt(v, from) ==
    IF from > Len(v) THEN <<>>
    ELSE (IF v[from] = 1 THEN <<from - 1>> ELSE <<>>) \o TrueAt(v, from + 1)

\* whether data[mask] raises IndexError
IndexFails(data, mask) ==
    IF mask.kind = "bool" THEN Len(mask.v) # ArrLen(data)
    ELSE \E k \in 1..Len(mask.v) : mask.v[k] >= ArrLen(data) \/ mask.v[k] < -ArrLen(data)

\* data[mask] for a mask that is not None and does not raise
Index(data, mask) ==
    IF mask.kind = "bool" THEN TakeRows(data, TrueAt(mask.v, 1))
    ELSE TakeRows(data, [k \in 1..Len(mask.v) |->
                            IF mask.v[k] < 0 THEN mask.v[k] + ArrLen(data) ELSE mask.v[k]])

(***************************************************************************)
(* Cost and MaskedCost.  _masked is either the very array _data (aliased)  *)
(* or a copy made by fancy indexing.                                       *)
(***************************************************************************)
NoCost == [kind |-> "none"]

Cost_init(self, args, verbose) ==
    [self EXCEPT !.func_code = make_func_code(args), !.verbose = verbose]

\* the array self._masked refers to
Masked(self) == IF self.aliased THEN self.data ELSE self.masked

update_masked(self) ==
    IF self.mask.kind = "None"
    THEN Ok([self EXCEPT !.aliased = TRUE, !.masked = EmptyArray])
    ELSE IF IndexFails(self.data, self.mask)
         THEN Raise(self, "IndexError")
         ELSE Ok([self EXCEPT !.aliased = FALSE, !.masked = Index(self.data, self.mask)])

MaskedCost_set_mask(self, mask) ==
    update_masked([self EXCEPT !.mask = mask])

MaskedCost_set_data_no_update(self, value) ==
    IF ~CanBroadcast(value, self.data.shape)
    THEN Raise(self, "ValueError")
    ELSE Ok([self EXCEPT !.data = BroadcastTo(value, self.data.shape)])

\* the cast numpy applies when numbers are stored into a float array
astype_float(value) == Array(value.shape, [k \in 1..Len(value.flat) |-> AsFloat(value.flat[k])])

\* self._data[:] = value; self._update_masked(), value holding floats
MaskedCost_set_data(self, value) ==
    IF ~CanBroadcast(value, self.data.shape)
    THEN Raise(self, "ValueError")
    ELSE update_masked([self EXCEPT !.data = BroadcastTo(value, self.data.shape)])

MaskedCost_init(self, args, data, verbose) ==
    MaskedCost_set_mask([Cost_init(self, args, verbose) EXCEPT !.data = data], MaskNone)

\* a loss is the string naming it or a callable
Loss(name) == [str |-> TRUE, name |-> name]
LossCallable(name) == [str |-> FALSE, name |-> name]
NoLoss == Loss("")

\* self._cost: one of the two module functions, or the lambda with the loss it closes over
Objective(f, loss) == [f |-> f, loss |-> loss]

Blank(kind) ==
    [kind |-> kind, func_code |-> make_func_code(<<>>), verbose |-> 0,
     data |-> EmptyArray, mask |-> MaskNone, aliased |-> TRUE, masked |-> EmptyArray,
     xe |-> EmptyArray, ndim |-> 0, loss |-> NoLoss, objective |-> Objective("", NoLoss)]

(***************************************************************************)
(* ndata; infinity is kept apart from the numbers.                         *)
(***************************************************************************)
Fin(n) == [inf |-> FALSE, n |-> n]
Inf == [inf |-> TRUE, n |-> 0]
Plus(a, b) == IF a.inf \/ b.inf THEN Inf ELSE Fin(a.n + b.n)

MaskedCost_ndata_unmasked(self) == Fin(ArrLen(self.data))

MaskedCost_ndata(self) == Fin(ArrLen(Masked(self)))

UnbinnedCost_ndata_finite(self) == MaskedCost_ndata(self)

UnbinnedCost_ndata(self) == Inf

Constant_ndata(self) == Fin(0)

NormalConstraint_ndata(self) == Fin(ArrLen(self.value))

\* the ndata property of a cost term that is not a CostSum
ndata(self) ==
    IF self.kind \in {"UnbinnedNLL", "ExtendedUnbinnedNLL"} THEN UnbinnedCost_ndata(self)
    ELSE IF self.kind = "Constant" THEN Constant_ndata(self)
    ELSE IF self.kind = "NormalConstraint" THEN NormalConstraint_ndata(self)
    ELSE MaskedCost_ndata(self)

(***************************************************************************)
(* UnbinnedNLL and ExtendedUnbinnedNLL.                                    *)
(***************************************************************************)
UnbinnedCost_init(kind, data, model, verbose) ==
    MaskedCost_init(Blank(kind), Tail(describe(model)), norm(data), verbose)

(***************************************************************************)
(* BinnedCost: BinnedNLL and ExtendedBinnedNLL.                            *)
(***************************************************************************)
BinnedCost_weighted(self) == Ndim(self.data) > Ndim(self.xe)

\* n must either have same dimension as xe or one extra
wrong_ndim(n, xe) == Ndim(n) # Ndim(xe) /\ (Ndim(n) > Ndim(xe) + 1 \/ Ndim(n) < Ndim(xe))

shapes_unchecked(n, xe) == FALSE

\* n and xe have incompatible shapes; n has passed wrong_ndim
shapes_incompatible(n, xe) ==
    LET is_weighted == Ndim(n) # Ndim(xe)
        lead == IF is_weighted THEN SubSeq(n.shape, 1, Len(n.shape) - 1) ELSE n.shape
    IN  \E k \in 1..Len(lead) : lead[k] + 1 # xe.shape[k]

\* n must have shape (..., 2)
wrong_trailing(n) == n.shape[Len(n.shape)] # 2

\* the scale left at 1, the effective count the sum of weights
weighted_columns_unscaled(n) ==
    LET v == LastAxis(n, 0)
        var == LastAxis(n, 1)
    IN  Array(<<Len(v.flat), 4>>,
              Concat([k \in 1..Len(v.flat) |->
                         <<v.flat[k], var.flat[k], v.flat[k], AsFloat(1)>>]))

\* the four stored columns of a histogram of weighted samples (Bohm and Zech)
weighted_columns(n) ==
    LET v == LastAxis(n, 0)
        var == LastAxis(n, 1)
        \* var + 1e-323 is var for the positive weights the model supplies
        s == [k \in 1..Len(v.flat) |-> FDiv(v.flat[k], var.flat[k])]
    IN  Array(<<Len(v.flat), 4>>,
              Concat([k \in 1..Len(v.flat) |->
                         <<v.flat[k], var.flat[k], FMul(v.flat[k], s[k]), s[k]>>]))

\* _prepare_data: the value as stored, or ValueError
prepare_data(xe, value) ==
    LET n == norm(value)
        is_weighted == Ndim(n) # Ndim(xe)
    IN  IF wrong_ndim(n, xe) THEN Raise(EmptyArray, "ValueError")
        ELSE IF shapes_incompatible(n, xe) THEN Raise(EmptyArray, "ValueError")
        ELSE IF is_weighted
        THEN IF wrong_trailing(n) THEN Raise(EmptyArray, "ValueError")
             ELSE Ok(weighted_columns(n))
        ELSE Ok(n)

\* the data getter: the two supplied columns of a weighted histogram
BinnedCost_data(self) ==
    IF BinnedCost_weighted(self)
    THEN Array(<<ArrLen(self.data), 2>>,
               Concat([i \in 1..ArrLen(self.data) |-> SubSeq(Row(self.data, i - 1), 1, 2)]))
    ELSE self.data

BinnedCost_set_data(self, value) ==
    LET p == prepare_data(self.xe, value)
    IN  IF p.err # "" THEN Raise(self, p.err) ELSE MaskedCost_set_data(self, p.c)

BinnedCost_init(kind, n, xe, model, verbose) ==
    LET self == [Blank(kind) EXCEPT !.xe = norm(xe)]
        p == prepare_data(self.xe, n)
    IN  IF p.err # "" THEN Raise(NoCost, p.err)
        ELSE MaskedCost_init(self, Tail(describe(model)), p.c, verbose)

(***************************************************************************)
(* LeastSquares: x, y and yerror packed into one matrix of points.         *)
(***************************************************************************)
atleast_2d(x) == IF Ndim(x) = 1 THEN Array(<<1, x.shape[1]>>, x.flat) ELSE x

\* the length np.broadcast_arrays gives 1-D (or scalar) arrays, 0 - 1 when it raises
broadcast_length(lens) ==
    LET m == CHOOSE l \in Range1(lens) : \A k \in Range1(lens) : k <= l
    IN  IF \A k \in Range1(lens) : k = m \/ k = 1 THEN m ELSE 0 - 1

\* self._ndim = x.ndim
ndim_of(x) == Ndim(x)

\* every string is taken as a known loss
unknown_loss_never(loss) == FALSE

unknown_loss(loss) == loss.str /\ loss.name \notin {"linear", "soft_l1"}

\* the loss is stored and checked, the objective stays the one chosen at construction
LeastSquares_set_loss_keeping_objective(self, loss) ==
    LET stored == [self EXCEPT !.loss = loss]
    IN  IF self.objective = Objective("", NoLoss)
        THEN IF ~loss.str THEN Ok([stored EXCEPT !.objective = Objective("lambda", loss)])
             ELSE IF unknown_loss(loss) THEN Raise(stored, "ValueError")
             ELSE IF loss.name = "linear"
             THEN Ok([stored EXCEPT !.objective = Objective("sum_z_squared", NoLoss)])
             ELSE Ok([stored EXCEPT !.objective = Objective("sum_z_squared_soft_l1", NoLoss)])
        ELSE IF unknown_loss(loss) THEN Raise(stored, "ValueError") ELSE Ok(stored)

\* self.loss = loss: the loss is stored, then the objective is chosen or the name rejected
LeastSquares_set_loss(self, loss) ==
    LET stored == [self EXCEPT !.loss = loss]
    IN  IF ~loss.str THEN Ok([stored EXCEPT !.objective = Objective("lambda", loss)])
        ELSE IF unknown_loss(loss) THEN Raise(stored, "ValueError")
        ELSE IF loss.name = "linear"
        THEN Ok([stored EXCEPT !.objective = Objective("sum_z_squared", NoLoss)])
        ELSE Ok([stored EXCEPT !.objective = Objective("sum_z_squared_soft_l1", NoLoss)])

LeastSquares_init(x, y, yerror, model, loss, verbose) ==
    LET xn == norm(x)
        yn == norm(y)
        ndim == ndim_of(xn)
        x2 == atleast_2d(xn)
        D == x2.shape[1]
        ye == astype_float(yerror)
        lens == [k \in 1..(D + 2) |->
                    IF k <= D THEN x2.shape[2]
                    ELSE IF k = D + 1 THEN ArrLen(yn)
                    ELSE IF Ndim(ye) = 0 THEN 1 ELSE ArrLen(ye)]
        N == broadcast_length(lens)
        col(k) == IF k <= D THEN BroadcastTo(Array1(Row(x2, k - 1)), <<N>>)
                  ELSE IF k = D + 1 THEN BroadcastTo(yn, <<N>>)
                  ELSE BroadcastTo(ye, <<N>>)
        data == Array(<<N, D + 2>>,
                      Concat([i \in 1..N |-> [k \in 1..(D + 2) |-> col(k).flat[i]]]))
        self == LeastSquares_set_loss([Blank("LeastSquares") EXCEPT !.ndim = ndim], loss)
    IN  IF self.err # "" THEN Raise(NoCost, self.err)
        ELSE IF N < 0 THEN Raise(NoCost, "ValueError")
        ELSE MaskedCost_init(self.c, Tail(describe(model)), data, verbose)

\* a[from:to] of rows, 0-based, clipped as slices are
RowSlice(a, from, to) ==
    LET hi == IF to > ArrLen(a) THEN ArrLen(a) ELSE to
        lo == IF from > hi THEN hi ELSE from
    IN  TakeRows(a, [k \in 1..(hi - lo) |-> lo + k - 1])

\* d[:, from:to] = src on a 2-D d, columns 0-based and clipped; src broadcasts
CanSetColumns(d, from, to, src) ==
    LET hi == IF to > d.shape[2] THEN d.shape[2] ELSE to
    IN  CanBroadcast(src, <<d.shape[1], hi - from>>)
SetColumns(d, from, to, src) ==
    LET hi == IF to > d.shape[2] THEN d.shape[2] ELSE to
        b == BroadcastTo(src, <<d.shape[1], hi - from>>)
    IN  Array(d.shape,
              [k \in 1..Len(d.flat) |->
                  LET r == (k - 1) \div d.shape[2]
                      c == (k - 1) % d.shape[2]
                  IN  IF c >= from /\ c < hi THEN b.flat[r * (hi - from) + (c - from) + 1]
                      ELSE d.flat[k]])

\* d[:, j] = src on a 2-D d, 0-based j; IndexError when j is no column
SetColumn(self, j, src) ==
    IF j >= self.data.shape[2] THEN Raise(self, "IndexError")
    ELSE IF ~CanBroadcast(src, <<self.data.shape[1]>>) THEN Raise(self, "ValueError")
    ELSE Ok([self EXCEPT !.data =
                SetColumns(self.data, j, j + 1,
                           Array(<<self.data.shape[1], 1>>,
                                 BroadcastTo(src, <<self.data.shape[1]>>).flat))])

\* getters; the value, or the exception indexing raises
LeastSquares_x(self) ==
    IF self.ndim = 1 THEN Ok(Column(self.data, 0))
    ELSE Ok(RowSlice(Transpose(self.data), 0, self.ndim))

LeastSquares_y(self) ==
    IF self.ndim >= self.data.shape[2] THEN Raise(EmptyArray, "IndexError")
    ELSE Ok(Column(self.data, self.ndim))

LeastSquares_yerror(self) ==
    IF self.ndim + 1 >= self.data.shape[2] THEN Raise(EmptyArray, "IndexError")
    ELSE Ok(Column(self.data, self.ndim + 1))

\* self.data = d after d, which is self._data, was written in place
store_back(r) == IF r.err # "" THEN r ELSE MaskedCost_set_data(r.c, r.c.data)

LeastSquares_set_x(self, value) ==
    IF self.ndim = 1 THEN store_back(SetColumn(self, 0, norm(value)))
    ELSE IF ~CanSetColumns(self.data, 0, self.ndim, Transpose(norm(value)))
         THEN Raise(self, "ValueError")
         ELSE store_back(Ok([self EXCEPT !.data =
                  SetColumns(self.data, 0, self.ndim, Transpose(norm(value)))]))

LeastSquares_set_y(self, value) ==
    store_back(SetColumn(self, self.ndim, norm(value)))

LeastSquares_set_yerror(self, value) ==
    store_back(SetColumn(self, self.ndim + 1, norm(value)))

\* _call up to the model's invocation: what the model receives and what is unpacked
LeastSquares_call(self) ==
    LET t == Transpose(Masked(self))
        x == IF self.ndim = 1 THEN Array1(Row(t, 0)) ELSE RowSlice(t, 0, self.ndim)
        rest == RowSlice(t, self.ndim, ArrLen(t))
    IN  IF ArrLen(rest) # 2
        THEN [err |-> "ValueError", x |-> x, y |-> EmptyArray, yerror |-> EmptyArray]
        ELSE [err |-> "", x |-> x, y |-> Array1(Row(rest, 0)), yerror |-> Array1(Row(rest, 1))]

(***************************************************************************)
(* Constant: holds the number it was given.                                *)
(***************************************************************************)
Constant_init(value) ==
    Cost_init([kind |-> "Constant", func_code |-> make_func_code(<<>>), verbose |-> 0,
               value |-> value], <<>>, 0)

Constant_call(self, args) == AsFloat(self.value)

(***************************************************************************)
(* NormalConstraint.  args is one name (str) or a sequence of names; the   *)
(* covariance is a vector of variances or a full matrix.                   *)
(***************************************************************************)
\* (the one name of a str is kept as a sequence of one, v[1])
Name(s) == [str |-> TRUE, v |-> <<s>>]
NameSeq(names) == [str |-> FALSE, v |-> names]

\* element (i, j), from 1, of a matrix
Entry(a, i, j) == a.flat[(i - 1) * a.shape[2] + j]

Without(seq, k) == SubSeq(seq, 1, k - 1) \o SubSeq(seq, k + 1, Len(seq))

Sign(k) == IF k % 2 = 0 THEN AsFloat(1) ELSE AsFloat(0 - 1)

\* the determinant of the rows rs and columns cs of a, expanded along the first row
RECURSIVE Det(_, _, _)
Det(a, rs, cs) ==
    IF rs = <<>> THEN AsFloat(1)
    ELSE LET term(k) == FMul(FMul(Sign(k + 1), Entry(a, rs[1], cs[k])),
                             Det(a, Tail(rs), Without(cs, k)))
             RECURSIVE upto(_)
             upto(k) == IF k = 0 THEN AsFloat(0) ELSE FAdd(upto(k - 1), term(k))
         IN  upto(Len(cs))

Indices(n) == [k \in 1..n |-> k]

\* np.linalg.inv raises LinAlgError for a matrix that is not square or is singular
not_invertible(array) ==
    /\ Ndim(array) = 2
    /\ \/ array.shape[1] # array.shape[2]
       \/ Det(array, Indices(array.shape[1]), Indices(array.shape[2])) = AsFloat(0)

linalg_inv(array) ==
    LET n == array.shape[1]
        all == Indices(n)
        det == Det(array, all, all)
    IN  Array(array.shape,
              Concat([i \in 1..n |-> [j \in 1..n |->
                  FDiv(FMul(Sign(i + j), Det(array, Without(all, j), Without(all, i))),
                       det)]]))

covinv(array) ==
    IF Ndim(array) = 2 THEN linalg_inv(array)
    ELSE Array(array.shape, [k \in 1..Len(array.flat) |-> FDiv(AsFloat(1), array.flat[k])])

NormalConstraint_init(args, value, error) ==
    LET names == IF args.str THEN <<args.v[1]>> ELSE args.v
        e == norm(error)
        cov == IF Ndim(e) < 2
               THEN Array(e.shape, [k \in 1..Len(e.flat) |-> FMul(e.flat[k], e.flat[k])])
               ELSE e
    IN  IF not_invertible(cov) THEN Raise(NoCost, "LinAlgError")
        ELSE Ok(Cost_init([kind |-> "NormalConstraint", func_code |-> make_func_code(<<>>),
                           verbose |-> 0, value |-> norm(value), cov |-> cov,
                           covinv |-> covinv(cov)], names, 0))

\* the covariance is stored and the inverse is left as it was
NormalConstraint_set_covariance_stale(self, value) ==
    IF ~CanBroadcast(value, self.cov.shape) THEN Raise(self, "ValueError")
    ELSE Ok([self EXCEPT !.cov = BroadcastTo(astype_float(value), self.cov.shape)])

\* self._cov[:] = value, then the inverse is recomputed
NormalConstraint_set_covariance(self, value) ==
    IF ~CanBroadcast(value, self.cov.shape) THEN Raise(self, "ValueError")
    ELSE LET stored == [self EXCEPT !.cov = BroadcastTo(astype_float(value), self.cov.shape)]
         IN  IF not_invertible(stored.cov) THEN Raise(stored, "LinAlgError")
             ELSE Ok([stored EXCEPT !.covinv = covinv(stored.cov)])

\* self._value[:] = value
NormalConstraint_set_value(self, value) ==
    IF ~CanBroadcast(value, self.value.shape) THEN Raise(self, "ValueError")
    ELSE Ok([self EXCEPT !.value = BroadcastTo(astype_float(value), self.value.shape)])

RECURSIVE FSum(_)
FSum(fs) == IF fs = <<>> THEN AsFloat(0) ELSE FAdd(Head(fs), FSum(Tail(fs)))

\* element k (from 1) of a one-axis operand broadcast to a common length
Elem(flat, k) == IF Len(flat) = 1 THEN flat[1] ELSE flat[k]

\* delta = value - args; np.sum(delta ** 2 * covinv) for variances,
\* np.einsum("i,ij,j", delta, covinv, delta) for a matrix
NormalConstraint_call(self, args) ==
    LET m == broadcast_length(<<Len(self.value.flat), Len(args)>>)
        delta(k) == FSub(Elem(self.value.flat, k), AsFloat(Elem(args, k)))
        n == IF m < 0 THEN m
             ELSE IF Ndim(self.covinv) < 2 THEN broadcast_length(<<m, Len(self.covinv.flat)>>)
             ELSE IF self.covinv.shape = <<m, m>> THEN m ELSE 0 - 1
    IN  IF n < 0 THEN [err |-> "ValueError", r |-> AsFloat(0)]
        ELSE IF Ndim(self.covinv) < 2
        THEN [err |-> "",
              r |-> FSum([k \in 1..n |->
                            FMul(FMul(delta(k), delta(k)), Elem(self.covinv.flat, k))])]
        ELSE [err |-> "",
              r |-> FSum([k \in 1..(n * n) |->
                            LET i == ((k - 1) \div n) + 1
                                j == ((k - 1) % n) + 1
                            IN  FMul(FMul(delta(i), Entry(self.covinv, i, j)), delta(j))])]

(***************************************************************************)
(* merge_signatures: the combined parameter list is the union of the       *)
(* terms' parameter lists in order of first occurrence; each term's map    *)
(* gives, for every local position, the 0-based position in the combined   *)
(* list.  Names are the same when the strings are equal.                   *)
(***************************************************************************)
IndexOf(seq, x) == (CHOOSE k \in 1..Len(seq) : seq[k] = x) - 1

RECURSIVE merge_names(_, _, _)
merge_names(args, map, names) ==
    IF names = <<>> THEN [args |-> args, map |-> map]
    ELSE LET k == Head(names)
         IN  IF k \in Range1(args)
             THEN merge_names(args, Append(map, IndexOf(args, k)), Tail(names))
             ELSE merge_names(Append(args, k), Append(map, Len(args)), Tail(names))

RECURSIVE merge_loop(_, _, _)
merge_loop(args, maps, callables) ==
    IF callables = <<>> THEN [args |-> args, maps |-> maps]
    ELSE LET m == merge_names(args, <<>>, Signature(Head(callables)))
         IN  merge_loop(m.args, Append(maps, m.map), Tail(callables))

merge_signatures(callables) == merge_loop(<<>>, <<>>, callables)

(***************************************************************************)
(* CostSum.  Objects live in a heap and are referred to by position; an    *)
(* item handed to CostSum is a cost object or a plain number.              *)
(***************************************************************************)
Obj(i) == [t |-> "obj", v |-> i]
Num(v) == [t |-> "num", v |-> v]

IsCostSum(h, item) == item.t = "obj" /\ h[item.v].kind = "CostSum"

\* a CostSum handed in is kept as one constituent
item_constituents_nested(h, item) ==
    IF item.t = "num"
    THEN IF item.v # 0
         THEN [heap |-> Append(h, Constant_init(item.v)), items |-> <<Len(h) + 1>>]
         ELSE [heap |-> h, items |-> <<>>]
    ELSE [heap |-> h, items |-> <<item.v>>]

\* a Constant is allocated for every number, zero included
item_constituents_keeping_zero(h, item) ==
    IF IsCostSum(h, item) THEN [heap |-> h, items |-> h[item.v].items]
    ELSE IF item.t = "num"
    THEN [heap |-> Append(h, Constant_init(item.v)), items |-> <<Len(h) + 1>>]
    ELSE [heap |-> h, items |-> <<item.v>>]

\* a Constant object holding zero is dropped as the number zero is
item_constituents_dropping_zero_constants(h, item) ==
    IF IsCostSum(h, item) THEN [heap |-> h, items |-> h[item.v].items]
    ELSE IF item.t = "num"
    THEN IF item.v # 0
         THEN [heap |-> Append(h, Constant_init(item.v)), items |-> <<Len(h) + 1>>]
         ELSE [heap |-> h, items |-> <<>>]
    ELSE IF h[item.v].kind = "Constant" /\ h[item.v].value = 0
    THEN [heap |-> h, items |-> <<>>]
    ELSE [heap |-> h, items |-> <<item.v>>]

\* what one item adds to self._items, and the heap after it (a Constant is allocated
\* for a number that is not zero)
item_constituents(h, item) ==
    IF IsCostSum(h, item) THEN [heap |-> h, items |-> h[item.v].items]
    ELSE IF item.t = "num"
    THEN IF item.v # 0
         THEN [heap |-> Append(h, Constant_init(item.v)), items |-> <<Len(h) + 1>>]
         ELSE [heap |-> h, items |-> <<>>]
    ELSE [heap |-> h, items |-> <<item.v>>]

RECURSIVE CostSum_items(_, _, _)
CostSum_items(h, items, rest) ==
    IF rest = <<>> THEN [heap |-> h, items |-> items]
    ELSE LET c == item_constituents(h, Head(rest))
         IN  CostSum_items(c.heap, items \o c.items, Tail(rest))

Max(S) == CHOOSE m \in S : \A k \in S : k <= m

\* the level of the first constituent
CostSum_verbose_first(terms) == terms[1].verbose

\* max(c.verbose for c in self._items)
CostSum_verbose(terms) == Max({terms[k].verbose : k \in 1..Len(terms)})

\* the list of a CostSum handed in first is extended in place and shared with the new sum
CostSum_init_sharing_list(h, items) ==
    LET g == CostSum_items(h, <<>>, items)
        terms == [k \in 1..Len(g.items) |-> g.heap[g.items[k]]]
        m == merge_signatures(terms)
        self == Cost_init([kind |-> "CostSum", func_code |-> make_func_code(<<>>),
                           verbose |-> 0, items |-> g.items, maps |-> m.maps],
                          m.args, CostSum_verbose(terms))
        shared == IF IsCostSum(h, items[1])
                  THEN [g.heap EXCEPT ![items[1].v].items = g.items]
                  ELSE g.heap
    IN  IF g.items = <<>> THEN [heap |-> g.heap, err |-> "ValueError"]
        ELSE [heap |-> Append(shared, self), err |-> ""]

\* CostSum(*items): the heap with the new objects, the new sum last
CostSum_init(h, items) ==
    LET g == CostSum_items(h, <<>>, items)
        terms == [k \in 1..Len(g.items) |-> g.heap[g.items[k]]]
        m == merge_signatures(terms)
        self == Cost_init([kind |-> "CostSum", func_code |-> make_func_code(<<>>),
                           verbose |-> 0, items |-> g.items, maps |-> m.maps],
                          m.args, CostSum_verbose(terms))
    IN  IF g.items = <<>> THEN [heap |-> g.heap, err |-> "ValueError"]
        ELSE [heap |-> Append(g.heap, self), err |-> ""]

Cost_add(h, self, rhs) == CostSum_init(h, <<self, rhs>>)
Cost_radd(h, self, lhs) == CostSum_init(h, <<lhs, self>>)

\* lhs + rhs, at least one of them a cost object
Plus_operator(h, lhs, rhs) ==
    IF lhs.t = "obj" THEN Cost_add(h, lhs, rhs) ELSE Cost_radd(h, rhs, lhs)

\* c._call(c_args) of a term whose call needs no user model
term_call(c, c_args) ==
    IF c.kind = "Constant" THEN [err |-> "", r |-> Constant_call(c, c_args)]
    ELSE NormalConstraint_call(c, c_args)

\* the loop of CostSum._call from constituent k on: the arguments each constituent
\* received and the accumulated result
RECURSIVE CostSum_call_from(_, _, _, _)
CostSum_call_from(h, self, args, k) ==
    IF k > Len(self.items) THEN [err |-> "", r |-> AsFloat(0), c_args |-> <<>>]
    ELSE LET map == self.maps[k]
             c_args == [i \in 1..Len(map) |-> args[map[i] + 1]]
             one == term_call(h[self.items[k]], c_args)
             rest == CostSum_call_from(h, self, args, k + 1)
         IN  IF one.err # "" THEN [err |-> one.err, r |-> AsFloat(0), c_args |-> <<c_args>>]
             ELSE [err |-> rest.err, r |-> FAdd(one.r, rest.r),
                   c_args |-> <<c_args>> \o rest.c_args]

\* every constituent is handed the leading values of args
CostSum_call_unmapped(h, self, args) ==
    CostSum_call_from(h, [self EXCEPT !.maps = [k \in 1..Len(self.maps) |->
                                                  [i \in 1..Len(self.maps[k]) |-> i - 1]]],
                      args, 1)

CostSum_call(h, self, args) == CostSum_call_from(h, self, args, 1)

RECURSIVE CostSum_ndata_from(_, _, _)
CostSum_ndata_from(h, self, k) ==
    IF k > Len(self.items) THEN Fin(0)
    ELSE Plus(ndata(h[self.items[k]]), CostSum_ndata_from(h, self, k + 1))

CostSum_ndata(h, self) == CostSum_ndata_from(h, self, 1)

CostSum_len(self) == Len(self.items)

\* self._items[key], key counted from 0, or from the end when negative
CostSum_getitem(h, self, key) ==
    LET n == Len(self.items)
    IN  IF key >= n \/ key < 0 - n THEN [err |-> "IndexError", item |-> 0]
        ELSE [err |-> "", item |-> self.items[(IF key < 0 THEN key + n ELSE key) + 1]]

(***************************************************************************)
(* Inputs.                                                                 *)
(***************************************************************************)
Vals == 1..MaxVal
Scalars == {Array(<<>>, <<v>>) : v \in Vals}
Unit == Array(<<>>, <<1>>)
Ones(shape) == Array(shape, [k \in 1..Prod(shape) |-> 1])
\* arrays of a shape: constant ones, one whose rows differ and one whose columns differ
RowRamp(shape) ==
    Array(shape, [k \in 1..Prod(shape) |-> 1 + (((k - 1) \div Prod(Tail(shape))) % MaxVal)])
ElemRamp(shape) == Array(shape, [k \in 1..Prod(shape) |-> 1 + ((k - 1) % MaxVal)])
Fill(shape) ==
    {Array(shape, [k \in 1..Prod(shape) |-> v]) : v \in Vals}
        \cup {RowRamp(shape), ElemRamp(shape)}

\* D rows of N points each, the rows told apart by their values
Stacked(D, N) == RowRamp(<<D, N>>)

\* a vector longer than any data, which no assignment can broadcast
TooLong == Ones(<<MaxN + MaxD + 3>>)

Samples == UNION {Fill(<<n>>) : n \in 1..MaxN}

\* bin edges: only their number matters to the shapes
Edges == {Array1([k \in 1..e |-> k]) : e \in 2..(MaxN + 1)}

\* bin contents: counts, (w, w2) pairs, and arrays of shapes no histogram has
Counts == UNION {Fill(<<n>>) : n \in 1..MaxN}
Pairs == UNION {Fill(<<n, 2>>) : n \in 1..MaxN}
\* the pairs (10, 4) and (20, 9) in the first two bins, (1, 1) in the others
WeightPairs ==
    {Array(<<MaxN, 2>>, Concat([k \in 1..MaxN |->
                                   IF k = 1 THEN <<10, 4>> ELSE IF k = 2 THEN <<20, 9>> ELSE <<1, 1>>]))}
Misshapen == {Ones(<<n, c>>) : n \in 1..MaxN, c \in {1, 3}}
                 \cup {Ones(<<n, 2, 1>>) : n \in 1..MaxN}
BinContents == Counts \cup Pairs \cup Misshapen

\* boolean masks of every length up to MaxN, and one that is too long for any data
BoolMasks == UNION {{MaskBool(f) : f \in [1..n -> {0, 1}]} : n \in 1..MaxN}
                 \cup {MaskBool([k \in 1..(MaxN + 1) |-> 1])}
\* index masks: single, repeated and negative indices, and MaxN, which is out of range
IndexMasks == {MaskIndex(v) : v \in {<<0>>, <<0 - 1>>, <<0, 0>>, <<0 - 1, 0>>, <<MaxN>>}}
Masks == {MaskNone} \cup BoolMasks \cup IndexMasks

\* a user model f(x, a)
Model == [names |-> <<"x", "a">>]

UnbinnedKinds == {"UnbinnedNLL", "ExtendedUnbinnedNLL"}
BinnedKinds == {"BinnedNLL", "ExtendedBinnedNLL"}

(***************************************************************************)
(* SpecMasked: one MaskedCost, constructed and then reassigned and called. *)
(***************************************************************************)
NoLast ==
    [op |-> "none", lhs |-> Num(0), rhs |-> Num(0), before |-> 0, sum |-> 0,
     args |-> <<>>, c_args |-> <<>>, r |-> AsFloat(0), err |-> "", printed |-> <<>>]

NoOutcome == [op |-> "none", err |-> "", set |-> "", arg |-> <<>>, call |-> <<>>]

\* an assignment or a construction that ended with exception r.err ("": completed)
Assigned(op, arg, r) ==
    /\ cost' = r.c
    /\ outcome' = [op |-> op, err |-> r.err, set |-> r.err, arg |-> arg, call |-> <<>>]
    /\ UNCHANGED <<heap, last>>

NewUnbinned ==
    \E kind \in UnbinnedKinds, data \in Samples :
        /\ cost = NoCost
        /\ Assigned("init", [data |-> data], UnbinnedCost_init(kind, data, Model, 0))

NewBinned ==
    \E kind \in BinnedKinds, n \in BinContents, xe \in Edges :
        /\ cost = NoCost
        /\ Assigned("init", [n |-> n, xe |-> xe], BinnedCost_init(kind, n, xe, Model, 0))

ConstructLeastSquaresWithLoss(x, y, yerror, loss) ==
    /\ cost = NoCost
    /\ Assigned("init", [x |-> x, y |-> y, yerror |-> yerror, loss |-> loss],
                LeastSquares_init(x, y, yerror, Model, loss, 0))

\* the loss left at its default
ConstructLeastSquares(x, y, yerror) ==
    ConstructLeastSquaresWithLoss(x, y, yerror, Loss("linear"))

\* losses by name, known and unknown, and a callable
Losses == {Loss("linear"), Loss("soft_l1"), Loss("huber"), Loss("Linear"), Loss(""),
           LossCallable("f")}

NewLeastSquaresWithLoss ==
    \E loss \in Losses, yerror \in {Unit, TooLong} :
        ConstructLeastSquaresWithLoss(RowRamp(<<MaxN>>), RowRamp(<<MaxN>>), yerror, loss)

\* the losses assigned later: those of the constructions and a second callable
AssignedLosses == Losses \cup {LossCallable("g")}

SetLoss ==
    \E loss \in AssignedLosses :
        /\ cost # NoCost /\ cost.kind = "LeastSquares"
        /\ Assigned("loss", loss, LeastSquares_set_loss(cost, loss))


\* x of shape (N), y of shape (N), yerror a scalar or of shape (N)
NewLeastSquares ==
    \E N \in 1..MaxN :
        \E y \in Fill(<<N>>), yerror \in {Array(<<>>, <<1>>), Ones(<<N>>)} :
            ConstructLeastSquares(RowRamp(<<N>>), y, yerror)

\* x stacked to shape (D, N)
NewLeastSquaresStacked ==
    \E N \in 1..MaxN, D \in 1..MaxD :
        \E y \in Fill(<<N>>), yerror \in {Array(<<>>, <<1>>), Ones(<<N>>)} :
            ConstructLeastSquares(Stacked(D, N), y, yerror)

SetMask ==
    \E mask \in Masks :
        /\ cost # NoCost
        /\ Assigned("mask", <<>>, MaskedCost_set_mask(cost, mask))

\* self.data = value, through the setter of the object's class
assign_data(self, value) ==
    IF self.kind \in BinnedKinds THEN BinnedCost_set_data(self, value)
    ELSE MaskedCost_set_data(self, astype_float(value))

\* an assignment to data: the outcome keeps the shape of the value assigned
SetData ==
    \E value \in IF cost = NoCost THEN {}
                 ELSE IF cost.kind \in BinnedKinds THEN BinContents
                 ELSE IF cost.kind \in UnbinnedKinds THEN Scalars \cup Samples
                 ELSE Scalars \cup {TooLong} :
        Assigned("data", value.shape, assign_data(cost, value))

SetX ==
    \E value \in Scalars \cup {TooLong} \cup {Stacked(2, n) : n \in 1..MaxN} :
        /\ cost # NoCost /\ cost.kind = "LeastSquares"
        /\ Assigned("x", <<>>, LeastSquares_set_x(cost, value))

SetY ==
    \E value \in Scalars \cup {TooLong} :
        /\ cost # NoCost /\ cost.kind = "LeastSquares"
        /\ Assigned("y", <<>>, LeastSquares_set_y(cost, value))

SetYerror ==
    \E value \in Scalars \cup {TooLong} :
        /\ cost # NoCost /\ cost.kind = "LeastSquares"
        /\ Assigned("yerror", <<>>, LeastSquares_set_yerror(cost, value))

\* a call: the view it evaluates on and, for LeastSquares, what it unpacks
Call ==
    /\ cost # NoCost
    /\ outcome.op # "call"
    /\ LET r == IF cost.kind = "LeastSquares" THEN LeastSquares_call(cost)
                ELSE [err |-> "", x |-> EmptyArray, y |-> EmptyArray, yerror |-> EmptyArray]
       IN  outcome' = [op |-> "call", err |-> r.err, set |-> outcome.set, arg |-> <<>>,
                       call |-> [view |-> Masked(cost), x |-> r.x, y |-> r.y,
                                 yerror |-> r.yerror]]
    /\ UNCHANGED <<cost, heap, last>>

InitMasked ==
    /\ cost = NoCost
    /\ outcome = NoOutcome
    /\ heap = <<>>
    /\ last = NoLast

NextMasked ==
    \/ NewUnbinned \/ NewBinned \/ NewLeastSquares
    \/ SetMask \/ SetData \/ SetX \/ SetY \/ SetYerror
    \/ Call

SpecMasked == InitMasked /\ [][NextMasked]_vars

SpecLeastSquares ==
    InitMasked /\ [][NewLeastSquares \/ NewLeastSquaresStacked \/ NewLeastSquaresWithLoss
                         \/ SetX \/ SetY \/ SetYerror \/ SetLoss \/ Call]_vars

(***************************************************************************)
(* SpecSum: cost terms of every kind are constructed, added to each other  *)
(* and to plain numbers, and have their mask and data assigned.            *)
(***************************************************************************)
Numbers == {0, 1}

\* the terms constructed: one of each kind over MaxN samples, bins or points
Terms ==
    {UnbinnedCost_init(kind, RowRamp(<<MaxN>>), Model, 0).c : kind \in UnbinnedKinds}
    \cup {BinnedCost_init("BinnedNLL", RowRamp(<<MaxN>>),
                          Array1([k \in 1..(MaxN + 1) |-> k]), Model, 0).c}
    \cup {LeastSquares_init(RowRamp(<<MaxN>>), RowRamp(<<MaxN>>), Unit, Model,
                            Loss("linear"), 0).c}
    \cup {NormalConstraint_init(Name("a"), Unit, Unit).c}
    \cup {Constant_init(v) : v \in Numbers}

MaskedKinds == UnbinnedKinds \cup BinnedKinds \cup {"LeastSquares"}

SumIds(h) == {i \in 1..Len(h) : h[i].kind = "CostSum"}
TermIds(h) == (1..Len(h)) \ SumIds(h)
MaskedIds(h) == {i \in 1..Len(h) : h[i].kind \in MaskedKinds}

Operands(h) == {Obj(i) : i \in 1..Len(h)} \cup {Num(v) : v \in Numbers}

NewTerm ==
    \E term \in Terms :
        /\ Cardinality(TermIds(heap)) < MaxLeaves
        /\ heap' = Append(heap, term)
        /\ UNCHANGED <<cost, outcome, last>>

\* lhs + rhs with a cost object on at least one side
Add ==
    \E lhs \in Operands(heap), rhs \in Operands(heap) :
        /\ lhs.t = "obj" \/ rhs.t = "obj"
        /\ Cardinality(SumIds(heap)) < MaxSums
        /\ LET r == Plus_operator(heap, lhs, rhs)
           IN  /\ heap' = r.heap
               /\ last' = [NoLast EXCEPT !.op = "add", !.lhs = lhs, !.rhs = rhs,
                                         !.before = Len(heap), !.err = r.err,
                                         !.sum = IF r.err = "" THEN Len(r.heap) ELSE 0]
        /\ UNCHANGED <<cost, outcome>>

\* masks assigned to the constituents: None and one that keeps the first entry only
SumMasks == {MaskNone, MaskBool([k \in 1..MaxN |-> IF k = 1 THEN 1 ELSE 0])}

TermSetMask ==
    \E i \in MaskedIds(heap), mask \in SumMasks :
        /\ heap' = [heap EXCEPT ![i] = MaskedCost_set_mask(heap[i], mask).c]
        /\ UNCHANGED <<cost, outcome, last>>

\* every entry of the data set to one value (pairs for binned data with weights)
TermSetData ==
    \E i \in MaskedIds(heap) :
        LET value == IF heap[i].kind \in BinnedKinds THEN Ones(<<MaxN>>) ELSE Unit
        IN  /\ heap' = [heap EXCEPT ![i] = assign_data(heap[i], value).c]
            /\ UNCHANGED <<cost, outcome, last>>

NextSum == NewTerm \/ Add \/ TermSetMask \/ TermSetData

SpecSum == InitMasked /\ [][NextSum]_vars

(***************************************************************************)
(* SpecSignature: constraints on named parameters are constructed, added   *)
(* to each other and to plain numbers, and the sums are called.            *)
(***************************************************************************)
ArgChoices ==
    {Name("x"), NameSeq(<<"y">>), NameSeq(<<"x", "y">>), NameSeq(<<"y", "x">>),
     NameSeq(<<"X", "x">>)}

\* a constraint on the parameters args, expecting 1, 2, .. with error 1
Constraint(args) ==
    NormalConstraint_init(args, Array1([k \in 1..(IF args.str THEN 1 ELSE Len(args.v)) |-> k]),
                          Unit).c

NewConstraint ==
    \E args \in ArgChoices :
        /\ Cardinality(TermIds(heap)) < MaxLeaves
        /\ heap' = Append(heap, Constraint(args))
        /\ UNCHANGED <<cost, outcome, last>>

\* sum(*args) with one value per parameter of the sum
CallSum ==
    \E k \in SumIds(heap) :
        \E args \in [1..Len(Signature(heap[k])) -> 1..MaxArg] :
            LET r == CostSum_call(heap, heap[k], args)
            IN  /\ last' = [NoLast EXCEPT !.op = "call", !.sum = k, !.args = args,
                                          !.c_args = r.c_args, !.r = r.r, !.err = r.err]
                /\ UNCHANGED <<cost, outcome, heap>>

NextSignature == NewConstraint \/ Add \/ CallSum

SpecSignature == InitMasked /\ [][NextSignature]_vars

(***************************************************************************)
(* SpecConstraint: a NormalConstraint is constructed, its covariance and   *)
(* its expected value are reassigned, and it is called.                    *)
(***************************************************************************)
ArgForms == {Name("x")} \cup {NameSeq(SubSeq(<<"x", "y", "z">>, 1, n)) : n \in 1..MaxPar}

\* a scalar, a vector of the values 1, 2, .., or a vector of ones
Expected == {Unit} \cup {Array1([k \in 1..n |-> k]) : n \in 1..MaxPar}
                  \cup {Ones(<<n>>) : n \in 1..MaxPar}

\* symmetric n x n matrices with the diagonal d and the off-diagonal entries o
Symmetric(n, d, o) == Array(<<n, n>>, [k \in 1..(n * n) |->
                                        IF (k - 1) \div n = (k - 1) % n THEN d ELSE o])

\* errors and covariances: scalars, vectors and matrices, with zeros and singular ones
Vectors == UNION {{Array1(f) : f \in [1..n -> 0..MaxVal]} : n \in 1..MaxPar}
Matrices == {Symmetric(n, d, o) : n \in 1..MaxPar, d \in 0..MaxVal, o \in 0..MaxVal}
Covariances == {Array(<<>>, <<v>>) : v \in 0..MaxVal} \cup Vectors \cup Matrices

IsConstraint == cost # NoCost /\ cost.kind = "NormalConstraint"

\* the outcome of an operation on the constraint; set tells how the last assignment
\* of the covariance (or the construction) ended
Constrained(op, arg, r, set, call) ==
    /\ cost' = r.c
    /\ outcome' = [op |-> op, err |-> r.err, set |-> set, arg |-> arg, call |-> call]
    /\ UNCHANGED <<heap, last>>

NewNormalConstraint ==
    \E args \in ArgForms, value \in Expected, error \in Covariances :
        /\ cost = NoCost
        /\ LET r == NormalConstraint_init(args, value, error)
           IN  Constrained("init", [args |-> args, value |-> value, error |-> error],
                           r, r.err, <<>>)

SetCovariance ==
    \E value \in Covariances :
        /\ IsConstraint
        /\ LET r == NormalConstraint_set_covariance(cost, value)
           IN  Constrained("covariance", value, r, r.err, <<>>)

SetValue ==
    \E value \in Expected :
        /\ IsConstraint
        /\ Constrained("value", value, NormalConstraint_set_value(cost, value),
                       outcome.set, <<>>)

CallConstraint ==
    \E args \in IF IsConstraint THEN [1..Len(Signature(cost)) -> 1..MaxArg] ELSE {} :
        /\ IsConstraint
        /\ LET r == NormalConstraint_call(cost, args)
           IN  Constrained("call", args, [c |-> cost, err |-> r.err], outcome.set,
                           [covinv |-> cost.covinv, r |-> r.r])

NextConstraint == NewNormalConstraint \/ SetCovariance \/ SetValue \/ CallConstraint

SpecConstraint == InitMasked /\ [][NextConstraint]_vars

(***************************************************************************)
(* SpecVerbose: constraints and constants are constructed and added, the   *)
(* verbose level of any object is reassigned, and any object is called     *)
(* through __call__.  What a call prints is kept with the call: one line   *)
(* per print, with the object whose __call__ printed it.                   *)
(***************************************************************************)
VerboseLevels == 0..MaxVerbose

VerboseTerms ==
    {Constraint(Name("x")), Constraint(NameSeq(<<"x", "y">>)), Constant_init(1)}

Cost_set_verbose(self, value) == [self EXCEPT !.verbose = value]

\* self._call(args) of the object i of the heap
Cost_dispatch_call(h, i, args) ==
    IF h[i].kind = "CostSum" THEN CostSum_call(h, h[i], args)
    ELSE LET one == term_call(h[i], args)
         IN  [err |-> one.err, r |-> one.r, c_args |-> <<>>]

Line(i, args, r) == [by |-> i, args |-> args, r |-> r]

\* every constituent with verbose >= 1 prints its own line before the sum's
Cost_call_constituents_report(h, i, args) ==
    LET r == Cost_dispatch_call(h, i, args)
        items == IF h[i].kind = "CostSum" THEN h[i].items ELSE <<>>
        own == IF h[i].verbose >= 1 THEN <<Line(i, args, r.r)>> ELSE <<>>
        inner == SelectSeq([k \in 1..Len(items) |->
                               Line(items[k], r.c_args[k], term_call(h[items[k]], r.c_args[k]).r)],
                           LAMBDA l : h[l.by].verbose >= 1)
    IN  IF r.err # "" THEN [err |-> r.err, r |-> r.r, c_args |-> r.c_args, printed |-> <<>>]
        ELSE [err |-> "", r |-> r.r, c_args |-> r.c_args, printed |-> inner \o own]

\* self(*args): the result of _call, printed with the arguments if verbose >= 1
Cost_call(h, i, args) ==
    LET r == Cost_dispatch_call(h, i, args)
    IN  [err |-> r.err, r |-> r.r, c_args |-> r.c_args,
         printed |-> IF r.err = "" /\ h[i].verbose >= 1
                     THEN <<Line(i, args, r.r)>> ELSE <<>>]

NewVerboseTerm ==
    \E term \in VerboseTerms :
        /\ Cardinality(TermIds(heap)) < MaxLeaves
        /\ heap' = Append(heap, term)
        /\ UNCHANGED <<cost, outcome, last>>

\* c.verbose = value, on a term or on a sum
SetVerbose ==
    \E i \in 1..Len(heap), value \in VerboseLevels :
        /\ heap' = [heap EXCEPT ![i] = Cost_set_verbose(heap[i], value)]
        /\ last' = [NoLast EXCEPT !.op = "verbose", !.sum = i]
        /\ UNCHANGED <<cost, outcome>>

\* c(*args) with one value per parameter, on a term or on a sum
CallCost ==
    \E i \in 1..Len(heap) :
        \E args \in [1..Len(Signature(heap[i])) -> 1..MaxArg] :
            LET r == Cost_call(heap, i, args)
            IN  /\ last' = [NoLast EXCEPT !.op = "__call__", !.sum = i, !.args = args,
                                          !.c_args = r.c_args, !.r = r.r, !.err = r.err,
                                          !.printed = r.printed]
                /\ UNCHANGED <<cost, outcome, heap>>

\* lhs + rhs, both cost objects
AddCosts ==
    \E lhs \in Operands(heap), rhs \in Operands(heap) :
        /\ lhs.t = "obj" /\ rhs.t = "obj"
        /\ Cardinality(SumIds(heap)) < MaxVerboseSums
        /\ LET r == Plus_operator(heap, lhs, rhs)
           IN  /\ heap' = r.heap
               /\ last' = [NoLast EXCEPT !.op = "add", !.lhs = lhs, !.rhs = rhs,
                                         !.before = Len(heap), !.err = r.err,
                                         !.sum = IF r.err = "" THEN Len(r.heap) ELSE 0]
        /\ UNCHANGED <<cost, outcome>>

NextVerbose == NewVerboseTerm \/ AddCosts \/ SetVerbose \/ CallCost

SpecVerbose == InitMasked /\ [][NextVerbose]_vars

(***************************************************************************)
(* SpecCall: a cost term of any kind is constructed, its mask is           *)
(* reassigned, and it is evaluated.  The user model is f(x, a) = a * x * x,*)
(* elementwise, returned as a new array.  The value of a numeric kernel is *)
(* kept as the kernel's name with the arrays it was handed.                *)
(***************************************************************************)
Model_call(x, args) ==
    Array(x.shape, [k \in 1..Len(x.flat) |->
                       FMul(AsFloat(args[1]), FMul(x.flat[k], x.flat[k]))])

\* np.diff of a 1-D array
np_diff(a) == Array1([k \in 1..(ArrLen(a) - 1) |-> FSub(a.flat[k + 1], a.flat[k])])

Kernel(name, operands) == [kernel |-> name, operands |-> operands]

\* the object after the call, the exception and the value
Returned(c, r) == [c |-> c, err |-> "", r |-> r]
Failed(c, e) == [c |-> c, err |-> e, r |-> Kernel("", <<>>)]

\* a[k] * b[k] over two 1-D arrays of one length
Times(a, b) == Array1([k \in 1..ArrLen(a) |-> FMul(a.flat[k], b.flat[k])])
Scaled(f, a) == Array1([k \in 1..ArrLen(a) |-> FMul(f, a.flat[k])])

\* the scaling is written into the stored view: n[:, 0] *= n[:, 3]
scale_stored(self) ==
    LET n == Masked(self)
        scaled == SetColumns(n, 0, 1, Array(<<ArrLen(n), 1>>, Times(Column(n, 0), Column(n, 3)).flat))
    IN  IF self.aliased THEN [self EXCEPT !.data = scaled] ELSE [self EXCEPT !.masked = scaled]

ExtendedBinnedNLL_call_scaling_stored(self, args) ==
    LET mu0 == np_diff(Model_call(self.xe, args))
        n == Masked(self)
    IN  IF self.mask.kind # "None" /\ IndexFails(mu0, self.mask) THEN Failed(self, "IndexError")
        ELSE LET mu == IF self.mask.kind = "None" THEN mu0 ELSE Index(mu0, self.mask)
             IN  IF BinnedCost_weighted(self)
                 THEN Returned(scale_stored(self),
                               Kernel("2*sum_log_poisson", <<Column(n, 2).flat, Times(mu, Column(n, 3)).flat>>))
                 ELSE Returned(self, Kernel("2*sum_log_poisson", <<n.flat, mu.flat>>))

\* the probabilities of the active bins are used as the model gave them
BinnedNLL_call_unnormalised(self, args) ==
    LET prob0 == np_diff(Model_call(self.xe, args))
        n == Masked(self)
    IN  IF self.mask.kind # "None" /\ IndexFails(prob0, self.mask) THEN Failed(self, "IndexError")
        ELSE LET prob == IF self.mask.kind = "None" THEN prob0 ELSE Index(prob0, self.mask)
             IN  IF BinnedCost_weighted(self)
                 THEN Returned(self,
                               Kernel("2*sum_log_poisson_part",
                                      <<Column(n, 2).flat,
                                        Times(Scaled(FSum(Column(n, 0).flat), prob),
                                              Column(n, 3)).flat>>))
                 ELSE Returned(self,
                               Kernel("2*sum_log_poisson_part",
                                      <<n.flat, Scaled(FSum(n.flat), prob).flat>>))

\* BinnedNLL._call.  prob[ma] is a copy, so prob /= np.sum(prob) writes to no stored
\* array; mu is the new array of a product, so mu *= n[:, 3] writes to mu alone
BinnedNLL_call(self, args) ==
    LET prob0 == np_diff(Model_call(self.xe, args))
        n == Masked(self)
    IN  IF self.mask.kind # "None" /\ IndexFails(prob0, self.mask) THEN Failed(self, "IndexError")
        ELSE LET picked == Index(prob0, self.mask)
                 prob == IF self.mask.kind = "None" THEN prob0
                         ELSE Array1([k \in 1..ArrLen(picked) |->
                                         FDiv(picked.flat[k], FSum(picked.flat))])
             IN  IF BinnedCost_weighted(self)
                 THEN Returned(self,
                               Kernel("2*sum_log_poisson_part",
                                      <<Column(n, 2).flat,
                                        Times(Scaled(FSum(Column(n, 0).flat), prob),
                                              Column(n, 3)).flat>>))
                 ELSE Returned(self,
                               Kernel("2*sum_log_poisson_part",
                                      <<n.flat, Scaled(FSum(n.flat), prob).flat>>))

\* ExtendedBinnedNLL._call.  mu is the new array of np.diff, or the copy mu[ma], so
\* mu *= n[:, 3] writes to mu alone
ExtendedBinnedNLL_call(self, args) ==
    LET mu0 == np_diff(Model_call(self.xe, args))
        n == Masked(self)
    IN  IF self.mask.kind # "None" /\ IndexFails(mu0, self.mask) THEN Failed(self, "IndexError")
        ELSE LET mu == IF self.mask.kind = "None" THEN mu0 ELSE Index(mu0, self.mask)
             IN  IF BinnedCost_weighted(self)
                 THEN Returned(self,
                               Kernel("2*sum_log_poisson",
                                      <<Column(n, 2).flat, Times(mu, Column(n, 3)).flat>>))
                 ELSE Returned(self, Kernel("2*sum_log_poisson", <<n.flat, mu.flat>>))

\* UnbinnedNLL._call, log = False
UnbinnedNLL_call(self, args) ==
    Returned(self, Kernel("-2*sum_log_x", <<Model_call(Masked(self), args).flat>>))

\* ExtendedUnbinnedNLL._call, log = False; the model returns (a, f(x, a))
ExtendedUnbinnedNLL_call(self, args) ==
    Returned(self, Kernel("2*(ns-sum_log_x)",
                          <<<<AsFloat(args[1])>>, Model_call(Masked(self), args).flat>>))

\* _z_squared: ((y - ym) / ye) ** 2, elementwise
z_squared(y, ye, ym) ==
    Array1([k \in 1..ArrLen(y) |->
               LET z == FDiv(FSub(y.flat[k], ym.flat[k]), ye.flat[k]) IN FMul(z, z)])

\* _sum_z_squared, a number
sum_z_squared(y, ye, ym) == Kernel("number", <<FSum(z_squared(y, ye, ym).flat)>>)

\* _sum_z_squared_soft_l1; the square roots are left standing
sum_z_squared_soft_l1(y, ye, ym) ==
    Kernel("sum(2*(sqrt(1+z)-1))", <<z_squared(y, ye, ym).flat>>)

\* self._cost(y, yerror, ym)
apply_objective(objective, y, ye, ym) ==
    IF objective.f = "lambda"
    THEN Kernel("sum(loss(z))", <<<<objective.loss>>, z_squared(y, ye, ym).flat>>)
    ELSE IF objective.f = "sum_z_squared" THEN sum_z_squared(y, ye, ym)
    ELSE sum_z_squared_soft_l1(y, ye, ym)

\* LeastSquares._call: the objective the loss chose, on y, yerror and the model's
\* values at x (at the first row of a stacked x)
LeastSquares_evaluate(self, args) ==
    LET u == LeastSquares_call(self)
    IN  IF u.err # "" THEN Failed(self, u.err)
        ELSE LET x0 == IF Ndim(u.x) = 1 THEN u.x ELSE Array1(Row(u.x, 0))
             IN  Returned(self, apply_objective(self.objective, u.y, u.yerror,
                                                Model_call(x0, args)))

NormalConstraint_evaluate(self, args) ==
    LET r == NormalConstraint_call(self, args)
    IN  IF r.err # "" THEN Failed(self, r.err) ELSE Returned(self, Kernel("number", <<r.r>>))

\* self._call(args) by the class of self
dispatch_call(self, args) ==
    IF self.kind = "BinnedNLL" THEN BinnedNLL_call(self, args)
    ELSE IF self.kind = "ExtendedBinnedNLL" THEN ExtendedBinnedNLL_call(self, args)
    ELSE IF self.kind = "UnbinnedNLL" THEN UnbinnedNLL_call(self, args)
    ELSE IF self.kind = "ExtendedUnbinnedNLL" THEN ExtendedUnbinnedNLL_call(self, args)
    ELSE IF self.kind = "LeastSquares" THEN LeastSquares_evaluate(self, args)
    ELSE NormalConstraint_evaluate(self, args)

\* self(*args) with one value per parameter; the outcome keeps the object as it
\* was before the call
Evaluate ==
    \E args \in IF cost = NoCost THEN {} ELSE [1..Len(Signature(cost)) -> 1..MaxArg] :
        LET r == dispatch_call(cost, args)
        IN  /\ cost' = r.c
            /\ outcome' = [op |-> "evaluate", err |-> r.err, set |-> outcome.set,
                           arg |-> args, call |-> [before |-> cost, r |-> r.r]]
            /\ UNCHANGED <<heap, last>>

\* masks of the calls: None, the first entry, the last entry twice, one too long
CallMasks ==
    {MaskNone, MaskBool([k \in 1..MaxN |-> IF k = 1 THEN 1 ELSE 0]),
     MaskIndex(<<0 - 1, 0 - 1>>), MaskBool([k \in 1..(MaxN + 1) |-> 1])}

SetCallMask ==
    \E mask \in CallMasks :
        /\ cost # NoCost /\ cost.kind \in MaskedKinds
        /\ Assigned("mask", mask, MaskedCost_set_mask(cost, mask))

\* histograms of MaxN bins: counts, and pairs of weights and squared weights
NewHistogram ==
    \E kind \in BinnedKinds, n \in Fill(<<MaxN>>) \cup Fill(<<MaxN, 2>>) \cup WeightPairs :
        /\ cost = NoCost
        /\ LET xe == Array1([k \in 1..(MaxN + 1) |-> k])
           IN  Assigned("init", [n |-> n, xe |-> xe], BinnedCost_init(kind, n, xe, Model, 0))

NextCall ==
    \/ NewHistogram \/ NewUnbinned \/ NewLeastSquares \/ NewLeastSquaresWithLoss
    \/ NewNormalConstraint \/ SetCallMask \/ SetLoss \/ Evaluate

SpecCall == InitMasked /\ [][NextCall]_vars

(***************************************************************************)
(* Parameter views (src/src/iminuit/util.py).  A Python value is None, a   *)
(* number or a sequence of values; a parameter of the state holds a value, *)
(* an error, a fixed flag and two limits, each an infinity or a number.    *)
(***************************************************************************)
None == [t |-> "none", v |-> <<>>]
Scalar(n) == [t |-> "num", v |-> <<n>>]
Sequence(s) == [t |-> "seq", v |-> s]
Pair(a, b) == Sequence(<<a, b>>)

\* float("infinity") with its sign; a limit is an infinity or a number
MinusInf == [t |-> "inf", v |-> <<0 - 1>>]
PlusInf == [t |-> "inf", v |-> <<1>>]
Bound(n) == Scalar(n)
IsReal(x) == x.t \in {"num", "inf"}
Less(a, b) ==
    IF a.t = "inf" THEN a.v[1] < 0 /\ b # MinusInf
    ELSE IF b.t = "inf" THEN b.v[1] > 0
    ELSE a.v[1] < b.v[1]

\* a > b as Python evaluates it: "yes", "no" or "TypeError"
RECURSIVE py_greater(_, _)
py_greater(a, b) ==
    IF IsReal(a) /\ IsReal(b) THEN (IF Less(b, a) THEN "yes" ELSE "no")
    ELSE IF a.t = "seq" /\ b.t = "seq"
    THEN LET n == IF Len(a.v) < Len(b.v) THEN Len(a.v) ELSE Len(b.v)
             differ == {k \in 1..n : a.v[k] # b.v[k]}
         IN  IF differ = {} THEN (IF Len(a.v) > Len(b.v) THEN "yes" ELSE "no")
             ELSE LET k == CHOOSE i \in differ : \A j \in differ : i <= j
                  IN  py_greater(a.v[k], b.v[k])
    ELSE "TypeError"

\* _ndim: the nesting depth, followed through the first element that is not None
RECURSIVE ndim_of_value(_)
ndim_of_value(obj) ==
    IF obj.t # "seq" THEN 0
    ELSE LET some == {k \in 1..Len(obj.v) : obj.v[k] # None}
         IN  IF some = {} THEN 1
             ELSE 1 + ndim_of_value(obj.v[CHOOSE k \in some : \A j \in some : k <= j])

\* range(*key.indices(n)) of the slice [start:stop], 0-based
SliceIndices(key, n) ==
    LET hi == IF key.stop > n THEN n ELSE key.stop
        lo == IF key.start > hi THEN hi ELSE key.start
    IN  [k \in 1..(hi - lo) |-> lo + k - 1]

\* _key2index of an integer key
key2index(n, key) ==
    LET i == IF key < 0 THEN key + n ELSE key
    IN  IF i < 0 \/ i >= n THEN [err |-> "IndexError", i |-> 0] ELSE [err |-> "", i |-> i]

View(kind, ndim) == [kind |-> kind, ndim |-> ndim]

Done(state) == [c |-> state, err |-> "", at |-> ""]
Thrown(state, e, at) == [c |-> state, err |-> e, at |-> at]

NoLimit == [err |-> "", low |-> MinusInf, high |-> PlusInf]

\* _normalize_limit, with the unpacking low, high = ... of its caller
normalize_limit(lim) ==
    IF lim = None THEN NoLimit
    ELSE IF lim.t # "seq" THEN [NoLimit EXCEPT !.err = "TypeError"]
    ELSE IF Len(lim.v) < 2 THEN [NoLimit EXCEPT !.err = "IndexError"]
    ELSE LET low == IF lim.v[1] = None THEN MinusInf ELSE lim.v[1]
             high == IF lim.v[2] = None THEN PlusInf ELSE lim.v[2]
             greater == py_greater(low, high)
         IN  IF greater = "TypeError" THEN [NoLimit EXCEPT !.err = "TypeError"]
             ELSE IF greater = "yes" \/ Len(lim.v) # 2 THEN [NoLimit EXCEPT !.err = "ValueError"]
             ELSE IF ~IsReal(low) \/ ~IsReal(high) THEN [NoLimit EXCEPT !.err = "TypeError"]
             ELSE [err |-> "", low |-> low, high |-> high]

ValueView_set(state, i, value) ==
    IF value.t # "num" THEN Thrown(state, "TypeError", "set")
    ELSE Done([state EXCEPT ![i + 1].value = value.v[1]])

ErrorView_set(state, i, value) ==
    IF value.t # "num" THEN Thrown(state, "TypeError", "set")
    ELSE Done([state EXCEPT ![i + 1].error = value.v[1]])

\* fix if the value is true, release if not
FixedView_set(state, i, fix) ==
    LET truth == IF fix.t = "num" THEN fix.v[1] # 0 ELSE IF fix.t = "seq" THEN fix.v # <<>>
                 ELSE FALSE
    IN  Done([state EXCEPT ![i + 1].fixed = truth])

\* the limits are removed first, then the new ones are read and set
LimitView_set(state, i, args) ==
    LET val == state[i + 1].value
        removed == [state EXCEPT ![i + 1].lower = MinusInf, ![i + 1].upper = PlusInf]
        lim == normalize_limit(args)
        limited == IF lim.low # MinusInf /\ lim.high # PlusInf /\ lim.low = lim.high
                   THEN [removed EXCEPT ![i + 1].fixed = TRUE]
                   ELSE [removed EXCEPT ![i + 1].lower = lim.low, ![i + 1].upper = lim.high]
        clamped == IF Less(Bound(val), lim.low) THEN lim.low.v[1]
                   ELSE IF Less(lim.high, Bound(val)) THEN lim.high.v[1] ELSE val
    IN  IF lim.err # "" THEN Thrown(removed, lim.err, "set")
        ELSE Done([limited EXCEPT ![i + 1].value = clamped])

view_set(view, state, i, value) ==
    IF view.kind = "ValueView" THEN ValueView_set(state, i, value)
    ELSE IF view.kind = "ErrorView" THEN ErrorView_set(state, i, value)
    ELSE IF view.kind = "FixedView" THEN FixedView_set(state, i, value)
    ELSE LimitView_set(state, i, value)

\* for i in ind: self._set(i, value)
RECURSIVE set_each(_, _, _, _)
set_each(view, state, ind, value) ==
    IF ind = <<>> THEN Done(state)
    ELSE LET one == view_set(view, state, Head(ind), value)
         IN  IF one.err # "" THEN one ELSE set_each(view, one.c, Tail(ind), value)

\* for i, v in zip(ind, value): self._set(i, v)
RECURSIVE set_zip(_, _, _, _)
set_zip(view, state, ind, values) ==
    IF ind = <<>> \/ values = <<>> THEN Done(state)
    ELSE LET one == view_set(view, state, Head(ind), Head(values))
         IN  IF one.err # "" THEN one ELSE set_zip(view, one.c, Tail(ind), Tail(values))

\* the lengths are not compared: the values are paired with the indices as far as both go
setitem_slice_unchecked(view, state, key, value) ==
    LET ind == SliceIndices(key, Len(state))
    IN  IF ndim_of_value(value) = view.ndim THEN set_each(view, state, ind, value)
        ELSE IF value.t # "seq" THEN Thrown(state, "TypeError", "len")
        ELSE set_zip(view, state, ind, value.v)

\* BasicView.__setitem__ with a slice as the key
setitem_slice(view, state, key, value) ==
    LET ind == SliceIndices(key, Len(state))
    IN  IF ndim_of_value(value) = view.ndim THEN set_each(view, state, ind, value)
        ELSE IF value.t # "seq" THEN Thrown(state, "TypeError", "len")
        ELSE IF Len(value.v) # Len(ind) THEN Thrown(state, "ValueError", "length")
        ELSE set_zip(view, state, ind, value.v)

\* BasicView.__setitem__ with an integer as the key
setitem_index(view, state, key, value) ==
    LET i == key2index(Len(state), key)
    IN  IF i.err # "" THEN Thrown(state, i.err, "key") ELSE view_set(view, state, i.i, value)

(***************************************************************************)
(* SpecView: the state of MaxPar parameters is set up, and slices and      *)
(* single items of its views are assigned, MaxAssign times at most.        *)
(***************************************************************************)
\* the views by class; ndim is the argument of the constructor: 0 unless given, 1 for
\* a view whose elements are pairs
Views ==
    {View("ValueView", 0), View("ErrorView", 0), View("FixedView", 0),
     View("LimitView", 0), View("LimitView", 1)}

Slices == {[start |-> a, stop |-> b] : a \in 0..1, b \in 1..MaxPar}

ViewValues ==
    {Scalar(2), Pair(Scalar(0), Scalar(1)), Pair(None, Scalar(1)), Pair(Scalar(1), Scalar(0)),
     Sequence(<<>>), Sequence(<<Scalar(2)>>), Sequence(<<Scalar(0), Scalar(1), Scalar(2)>>),
     Sequence(<<Pair(Scalar(0), Scalar(1))>>),
     Sequence(<<Pair(Scalar(0), Scalar(1)), Pair(Scalar(1), Scalar(2))>>),
     Sequence(<<Pair(Scalar(0), Scalar(1)), Pair(Scalar(1), Scalar(2)),
                Pair(Scalar(0), Scalar(2))>>)}

Parameter == [value |-> 1, error |-> 1, fixed |-> FALSE, lower |-> MinusInf, upper |-> PlusInf]

IsMinuit == cost # NoCost /\ cost.kind = "Minuit"

NewMinuit ==
    /\ cost = NoCost
    /\ cost' = [kind |-> "Minuit", state |-> [k \in 1..MaxPar |-> Parameter], assigned |-> 0]
    /\ outcome' = [NoOutcome EXCEPT !.op = "minuit"]
    /\ UNCHANGED <<heap, last>>

\* the outcome of an assignment through a view, with the state it started from
ViewAssigned(op, view, key, value, r) ==
    /\ cost' = [cost EXCEPT !.state = r.c, !.assigned = cost.assigned + 1]
    /\ outcome' = [op |-> op, err |-> r.err, set |-> r.at,
                   arg |-> [view |-> view, key |-> key, value |-> value],
                   call |-> [before |-> cost.state]]
    /\ UNCHANGED <<heap, last>>

SetSlice ==
    \E view \in Views, key \in Slices, value \in ViewValues :
        /\ IsMinuit /\ cost.assigned < MaxAssign
        /\ ViewAssigned("setslice", view, key, value,
                        setitem_slice(view, cost.state, key, value))

SetItem ==
    \E view \in Views, key \in (0 - 1)..MaxPar, value \in ViewValues :
        /\ IsMinuit /\ cost.assigned < MaxAssign
        /\ ViewAssigned("setitem", view, key, value,
                        setitem_index(view, cost.state, key, value))

NextView == NewMinuit \/ SetSlice \/ SetItem

SpecView == InitMasked /\ [][NextView]_vars

(***************************************************************************)
(* SpecKernel: the numeric kernels are called with arrays of every element *)
(* type, with numba importable or not.  An array is given by its dtype.    *)
(***************************************************************************)
Dtypes == {"float16", "float32", "float64", "float128"}
Accelerated == {"float32", "float64"}

\* the kernels with their parameters, in order
KernelParameters ==
    [sum_log_x |-> <<"x">>,
     sum_log_poisson_part |-> <<"n", "mu">>,
     sum_log_poisson |-> <<"n", "mu">>,
     sum_z_squared |-> <<"y", "ye", "ym">>,
     sum_z_squared_soft_l1 |-> <<"y", "ye", "ym">>]

\* the array whose dtype the wrapper of the kernel looks at: x, mu or ym
inspected(kernel, arrays) == arrays[Len(KernelParameters[kernel])]

\* the function a call of the kernel runs: the compiled one or the numpy one; without
\* numba the import fails and the numpy definitions stay in place
kernel_path(numba, kernel, arrays) ==
    IF numba /\ inspected(kernel, arrays) \in Accelerated THEN "numba" ELSE "numpy"

CallKernel ==
    \E numba \in BOOLEAN, kernel \in DOMAIN KernelParameters :
        \E arrays \in [1..Len(KernelParameters[kernel]) -> Dtypes] :
            /\ outcome' = [op |-> "kernel", err |-> "", set |-> "",
                           arg |-> [numba |-> numba, kernel |-> kernel, arrays |-> arrays],
                           call |-> [path |-> kernel_path(numba, kernel, arrays)]]
            /\ UNCHANGED <<cost, heap, last>>

SpecKernel == InitMasked /\ [][CallKernel]_vars

(***************************************************************************)
(* What a mask selects, stated on rows: the rows of the data a mask keeps, *)
(* in the order it keeps them.                                             *)
(***************************************************************************)
Kept(mask, n) ==
    IF mask.kind = "None" THEN [k \in 1..n |-> k]
    ELSE IF mask.kind = "bool"
    THEN SelectSeq([k \in 1..Len(mask.v) |-> k], LAMBDA k : mask.v[k] = 1)
    ELSE [k \in 1..Len(mask.v) |-> IF mask.v[k] < 0 THEN n + mask.v[k] + 1 ELSE mask.v[k] + 1]

IsView(view, data, mask) ==
    LET kept == Kept(mask, ArrLen(data))
    IN  /\ view.shape = <<Len(kept)>> \o Tail(data.shape)
        /\ \A k \in 1..Len(kept) : Row(view, k - 1) = Row(data, kept[k] - 1)

Exists == cost # NoCost
MaskWasSet == Exists /\ outcome.op = "mask" /\ outcome.err = ""

\* the number of entries a mask selects: its True entries, or its length
MaskCount(mask) ==
    IF mask.kind = "bool" THEN Cardinality({k \in 1..Len(mask.v) : mask.v[k] = 1})
    ELSE Len(mask.v)

\* the unmasked number of samples, bins or points
Unmasked(self) ==
    IF self.kind \in BinnedKinds THEN ArrLen(self.xe) - 1 ELSE ArrLen(self.data)

ExpectedNdata(self) ==
    IF self.mask.kind = "None" THEN Fin(Unmasked(self)) ELSE Fin(MaskCount(self.mask))

(* C7, as claimed: after a mask is set on a MaskedCost of any kind, unbinned
   ones included, ndata is the number of True entries of a boolean mask or the
   length of an index mask, and the unmasked count again after a reset to
   None. *)
C7_AnyKind == MaskWasSet => ndata(cost) = ExpectedNdata(cost)

(* C7, amended: after a mask is set on a binned or least-squares term, ndata
   is the number of True entries of a boolean mask or the length of an index
   mask, and the unmasked bin or point count again after a reset to None;
   the ndata of an unbinned term is infinite whatever its mask. *)
C7_NdataCountsActive ==
    /\ (MaskWasSet /\ cost.kind \notin UnbinnedKinds) => ndata(cost) = ExpectedNdata(cost)
    /\ (Exists /\ cost.kind \in UnbinnedKinds) => ndata(cost) = Inf

C7_Witness ==
    /\ MaskWasSet
    /\ cost.kind = "BinnedNLL"
    /\ cost.mask = MaskBool(<<0, 1>>)
    /\ ndata(cost) = Fin(1)

(* C8: whenever the last assignment through a setter (or the construction)
   completed, the active view is the stored data selected by the current mask
   along the leading axis, the whole data when the mask is None, and a call
   evaluates on exactly that view. *)
C8_ViewConsistent ==
    (Exists /\ outcome.set = "") =>
        /\ IsView(Masked(cost), cost.data, cost.mask)
        /\ outcome.op = "call" => IsView(outcome.call.view, cost.data, cost.mask)

C8_Witness ==
    /\ Exists
    /\ outcome.op = "call" /\ outcome.set = ""
    /\ cost.kind = "LeastSquares"
    /\ cost.mask = MaskIndex(<<0 - 1, 0>>)
    /\ Column(cost.data, 1) = Array1(<<AsFloat(2), AsFloat(2)>>)
    /\ Column(outcome.call.view, 0) = Array1(<<AsFloat(2), AsFloat(1)>>)

\* shapes a histogram over e edges can have: (bins) or (bins, 2)
Compatible(shape, e) == shape = <<e - 1>> \/ shape = <<e - 1, 2>>

(* C10: a construction or a data assignment of a binned term whose bin
   contents have a shape incompatible with the edges (number of bins not the
   number of edges less one, a wrong number of dimensions, or a trailing
   dimension other than 2 for weighted contents) raises an error; the
   construction yields no object and the assignment leaves the term as it
   was. *)
C10_ShapesRejected ==
    [][/\ (outcome'.op = "init" /\ "n" \in DOMAIN outcome'.arg
              /\ ~Compatible(outcome'.arg.n.shape, ArrLen(outcome'.arg.xe)))
          => (outcome'.err = "ValueError" /\ cost' = NoCost)
       /\ (outcome'.op = "data" /\ Exists /\ cost.kind \in BinnedKinds
              /\ ~Compatible(outcome'.arg, ArrLen(cost.xe)))
          => (outcome'.err = "ValueError" /\ cost' = cost)]_vars

C10_Witness ==
    /\ Exists
    /\ cost.kind = "ExtendedBinnedNLL"
    /\ outcome.op = "data" /\ outcome.err = "ValueError"
    /\ outcome.arg = <<2, 3>>
    /\ ArrLen(cost.xe) = 3

\* a LeastSquares has just been constructed from outcome.arg
LeastSquaresBuilt ==
    Exists /\ cost.kind = "LeastSquares" /\ outcome.op = "init" /\ outcome.err = ""

\* the supplied x rows, y and yerror as floats, yerror spread over the N points
SuppliedX == norm(outcome.arg.x)
SuppliedRows == atleast_2d(SuppliedX)
SuppliedY == norm(outcome.arg.y)
SuppliedYerror == BroadcastTo(astype_float(outcome.arg.yerror), SuppliedY.shape)

\* the packed matrix holds the D x-columns, then y, then yerror
PackedAsSupplied ==
    LET D == ArrLen(SuppliedRows)
    IN  /\ cost.data.shape = <<ArrLen(SuppliedY), D + 2>>
        /\ \A d \in 1..D : Column(cost.data, d - 1) = Array1(Row(SuppliedRows, d - 1))
        /\ Column(cost.data, D) = SuppliedY
        /\ Column(cost.data, D + 1) = SuppliedYerror

(* C9: right after a LeastSquares is built from x of shape (N) or stacked
   shape (D, N), D >= 1, the packed matrix holds the D x-columns, then y, then
   yerror; the getters return the supplied x rows, y and yerror; and a call
   passes those x rows to the model and unpacks y and yerror without error. *)
C9_StackedAnyD ==
    LeastSquaresBuilt =>
        /\ PackedAsSupplied
        /\ LeastSquares_x(cost) = Ok(SuppliedX)
        /\ LeastSquares_y(cost) = Ok(SuppliedY)
        /\ LeastSquares_yerror(cost) = Ok(SuppliedYerror)
        /\ LeastSquares_call(cost) =
               [err |-> "", x |-> SuppliedX, y |-> SuppliedY, yerror |-> SuppliedYerror]

\* the part of C9 the code keeps: the same for x of shape (N) or (2, N)
C9_OneOrTwoRows ==
    (LeastSquaresBuilt /\ (Ndim(outcome.arg.x) = 1 \/ ArrLen(SuppliedRows) = 2)) =>
        /\ PackedAsSupplied
        /\ LeastSquares_x(cost) = Ok(SuppliedX)
        /\ LeastSquares_y(cost) = Ok(SuppliedY)
        /\ LeastSquares_yerror(cost) = Ok(SuppliedYerror)
        /\ LeastSquares_call(cost) =
               [err |-> "", x |-> SuppliedX, y |-> SuppliedY, yerror |-> SuppliedYerror]

\* the matrix is packed as claimed for every D; only the reading of it goes wrong
C9_PackedAnyD == LeastSquaresBuilt => PackedAsSupplied

(***************************************************************************)
(* Sums: what an addition must have produced, read off its operands.       *)
(***************************************************************************)
Added == last.op = "add" /\ last.err = ""
NewSum == heap[last.sum]
Constituents(k) == [j \in 1..Len(heap[k].items) |-> heap[heap[k].items[j]]]

\* the constituents a cost operand stands for: its own when it is a CostSum, itself otherwise
Contribution(item) == IF IsCostSum(heap, item) THEN heap[item.v].items ELSE <<item.v>>

IsConstant(item) == item.t = "obj" /\ heap[item.v].kind = "Constant"

RECURSIVE Total(_)
Total(ns) == IF ns = <<>> THEN 0 ELSE Head(ns) + Total(Tail(ns))

\* the number of points a term contributes, read off its state
TermCount(self) ==
    IF self.kind = "Constant" THEN 0
    ELSE IF self.kind = "NormalConstraint" THEN Len(self.value.flat)
    ELSE ExpectedNdata(self).n

(* C1: in every reachable state, after any additions and any mask and data
   assignments on the constituents, the ndata of every CostSum is the sum of
   the current ndata of its constituents, infinite as soon as one constituent
   is unbinned; an unbinned term's ndata is infinite whatever its data and
   mask, and the finite sum counts what each term's current mask selects. *)
C1_NdataIsSum ==
    /\ \A i \in 1..Len(heap) : heap[i].kind \in UnbinnedKinds => ndata(heap[i]) = Inf
    /\ \A k \in SumIds(heap) :
          LET terms == Constituents(k)
              each == [j \in 1..Len(terms) |-> ndata(terms[j])]
          IN  /\ CostSum_ndata(heap, heap[k]) =
                    IF \E j \in 1..Len(terms) : each[j].inf THEN Inf
                    ELSE Fin(Total([j \in 1..Len(terms) |-> each[j].n]))
              /\ CostSum_ndata(heap, heap[k]) =
                    IF \E j \in 1..Len(terms) : terms[j].kind \in UnbinnedKinds THEN Inf
                    ELSE Fin(Total([j \in 1..Len(terms) |-> TermCount(terms[j])]))

\* a sum of a masked BinnedNLL (one bin left) and an unmasked LeastSquares
C1_Witness ==
    \E k \in SumIds(heap) :
        /\ Len(heap[k].items) = 2
        /\ Constituents(k)[1].kind = "BinnedNLL"
        /\ Constituents(k)[1].mask.kind = "bool"
        /\ Constituents(k)[2].kind = "LeastSquares"
        /\ Constituents(k)[2].mask.kind = "None"
        /\ CostSum_ndata(heap, heap[k]) = Fin(1 + MaxN)

\* the entries of seq without repetitions, each where it first occurs
FirstOccurrences(seq) ==
    LET firsts == SelectSeq([p \in 1..Len(seq) |-> p],
                            LAMBDA p : \A q \in 1..(p - 1) : seq[q] # seq[p])
    IN  [k \in 1..Len(firsts) |-> seq[firsts[k]]]

AllNames(k) == Concat([j \in 1..Len(heap[k].items) |-> Signature(Constituents(k)[j])])

(* C2: the signature of every CostSum is the union of its constituents'
   parameter names in order of first occurrence, scanning the constituents in
   order and each one's names in order; every name appears exactly once, and
   two names are the same only when the strings are equal. *)
C2_SignatureIsOrderedUnion ==
    \A k \in SumIds(heap) :
        LET sig == Signature(heap[k])
        IN  /\ sig = FirstOccurrences(AllNames(k))
            /\ Range1(sig) = Range1(AllNames(k))
            /\ \A i \in 1..Len(sig) : \A j \in 1..Len(sig) : sig[i] = sig[j] => i = j

\* (X, x) + (x, y): X and x stay apart, the shared x appears once
C2_Witness ==
    \E k \in SumIds(heap) :
        /\ Len(heap[k].items) = 2
        /\ Signature(Constituents(k)[1]) = <<"X", "x">>
        /\ Signature(Constituents(k)[2]) = <<"x", "y">>
        /\ Signature(heap[k]) = <<"X", "x", "y">>

Called == last.op = "call" /\ last.err = ""

\* the value given in the call for a parameter of the sum
ValueOf(name) == last.args[IndexOf(Signature(heap[last.sum]), name) + 1]

OwnValues(term) == [i \in 1..Len(Signature(term)) |-> ValueOf(Signature(term)[i])]

(* C3: a call of a CostSum with one value per parameter of its signature
   hands every constituent exactly the values of that constituent's own
   named parameters, in the constituent's order, and returns the sum of the
   constituents' results on those values. *)
C3_CallGathersOwnValues ==
    Called =>
        LET terms == Constituents(last.sum)
        IN  /\ Len(last.c_args) = Len(terms)
            /\ \A j \in 1..Len(terms) : last.c_args[j] = OwnValues(terms[j])
            /\ last.r = FSum([j \in 1..Len(terms) |->
                                 term_call(terms[j], OwnValues(terms[j])).r])

\* terms with signatures (x) and (x, y) called with x = 1, y = 2 receive (1) and (1, 2)
C3_Witness ==
    /\ Called
    /\ Signature(heap[last.sum]) = <<"x", "y">>
    /\ last.args = <<1, 2>>
    /\ last.c_args = << <<1>>, <<1, 2>> >>
    /\ last.r = AsFloat(0)

BothCosts == Added /\ last.lhs.t = "obj" /\ last.rhs.t = "obj"

(* C4: no constituent of a CostSum is a CostSum; an addition of two cost
   objects yields the left operand's constituents followed by the right
   operand's, a CostSum operand standing for its own constituents in their
   order, and len() and indexing of the result give exactly that list. *)
C4_Flattened ==
    /\ \A k \in SumIds(heap) :
          \A j \in 1..Len(heap[k].items) : Constituents(k)[j].kind # "CostSum"
    /\ BothCosts =>
          LET flat == Contribution(last.lhs) \o Contribution(last.rhs)
          IN  /\ NewSum.items = flat
              /\ CostSum_len(NewSum) = Len(flat)
              /\ \A key \in 0..(Len(flat) - 1) :
                    /\ CostSum_getitem(heap, NewSum, key).err = ""
                    /\ CostSum_getitem(heap, NewSum, key).item = flat[key + 1]

\* CostSum + CostSum
C4_Witness ==
    /\ BothCosts
    /\ IsCostSum(heap, last.lhs) /\ IsCostSum(heap, last.rhs)
    /\ CostSum_len(NewSum) = 4

\* the constituents allocated by the last addition
Fresh == (last.before + 1)..(last.sum - 1)

\* the last addition had the number v on one side and a cost object on the other
NumberAdded(number, other) == Added /\ number.t = "num" /\ other.t = "obj"

\* items is the cost's constituents with, when v is not zero, one new Constant holding v
\* on the side the number was on
WithConstant(items, number, other, left) ==
    IF number.v = 0 THEN items = Contribution(other)
    ELSE /\ Len(items) = Len(Contribution(other)) + 1
         /\ LET c == IF left THEN items[1] ELSE items[Len(items)]
                rest == IF left THEN Tail(items) ELSE SubSeq(items, 1, Len(items) - 1)
            IN  /\ c \in Fresh
                /\ heap[c].kind = "Constant" /\ heap[c].value = number.v
                /\ rest = Contribution(other)

(* C5: an addition with a cost object on either side yields a CostSum; with
   a plain number v on the other side, its constituents are those of the
   cost plus one new Constant holding v when v is not zero, and those of the
   cost alone when v is zero. *)
C5_NumberBecomesConstant ==
    /\ last.op = "add" => last.err = "" /\ NewSum.kind = "CostSum"
    /\ NumberAdded(last.lhs, last.rhs) => WithConstant(NewSum.items, last.lhs, last.rhs, TRUE)
    /\ NumberAdded(last.rhs, last.lhs) => WithConstant(NewSum.items, last.rhs, last.lhs, FALSE)

\* 0 + cost
C5_Witness ==
    /\ NumberAdded(last.lhs, last.rhs)
    /\ last.lhs.v = 0
    /\ ~IsCostSum(heap, last.rhs)
    /\ NewSum.items = <<last.rhs.v>>

\* the last addition had the Constant object c on one side and a cost object on the other
ConstantAdded(c, other) == Added /\ IsConstant(c) /\ other.t = "obj"

Grows(other, by) == Len(NewSum.items) = Len(Contribution(other)) + by

(* C6, as claimed: adding a Constant(0) to a cost gives a CostSum with as
   many constituents as the cost had, adding a Constant(v) with v not zero
   gives one more. *)
C6_ConstantZeroDropped ==
    /\ ConstantAdded(last.lhs, last.rhs) =>
          Grows(last.rhs, IF heap[last.lhs.v].value = 0 THEN 0 ELSE 1)
    /\ ConstantAdded(last.rhs, last.lhs) =>
          Grows(last.lhs, IF heap[last.rhs.v].value = 0 THEN 0 ELSE 1)

(* C6, amended: adding a Constant object to a cost gives one constituent
   more for every value it holds, zero included; only the plain number 0 is
   dropped and leaves the number of constituents as the cost had it. *)
C6_ConstantAlwaysKept ==
    /\ ConstantAdded(last.lhs, last.rhs) => Grows(last.rhs, 1)
    /\ ConstantAdded(last.rhs, last.lhs) => Grows(last.lhs, 1)
    /\ (NumberAdded(last.lhs, last.rhs) /\ last.lhs.v = 0) => Grows(last.rhs, 0)
    /\ (NumberAdded(last.rhs, last.lhs) /\ last.rhs.v = 0) => Grows(last.lhs, 0)

\* cost + Constant(0)
C6_Witness ==
    /\ ConstantAdded(last.rhs, last.lhs)
    /\ heap[last.rhs.v].value = 0
    /\ heap[last.lhs.v].kind = "LeastSquares"
    /\ Len(NewSum.items) = 2

(***************************************************************************)
(* NormalConstraint: what the inverse of a covariance is, stated by what   *)
(* it does: the reciprocal of every variance, or the matrix whose product   *)
(* with the covariance is the identity.                                    *)
(***************************************************************************)
IsReciprocal(v, r) == IF v = AsFloat(0) THEN r = <<1, 0>> ELSE FMul(v, r) = AsFloat(1)

IsInverse(cov, inv) ==
    /\ inv.shape = cov.shape
    /\ IF Ndim(cov) < 2
       THEN \A k \in 1..Len(cov.flat) : IsReciprocal(cov.flat[k], inv.flat[k])
       ELSE LET n == cov.shape[1]
            IN  \A i \in 1..n : \A j \in 1..n :
                    FSum([k \in 1..n |-> FMul(Entry(cov, i, k), Entry(inv, k, j))])
                        = AsFloat(IF i = j THEN 1 ELSE 0)

CovarianceSet == IsConstraint /\ outcome.set = ""

(* C11: after the construction of a NormalConstraint and any covariance
   reassignments, the last of which completed, the cached inverse is the
   inverse of the current covariance (the reciprocals of a variance vector,
   the matrix inverse of a matrix) and it is the inverse a call uses; a value
   reassignment and a call leave it as it was. *)
C11_InverseFollowsCovariance ==
    /\ [](CovarianceSet =>
            /\ IsInverse(cost.cov, cost.covinv)
            /\ outcome.op = "call" => IsInverse(cost.cov, outcome.call.covinv))
    /\ [][(IsConstraint /\ outcome'.op \in {"value", "call"}) =>
            cost'.covinv = cost.covinv /\ cost'.cov = cost.cov]_vars

\* a matrix was assigned and its inverse is cached
C11_Witness ==
    /\ CovarianceSet
    /\ outcome.op = "covariance"
    /\ cost.cov = astype_float(Symmetric(2, 2, 1))
    /\ cost.covinv = Array(<<2, 2>>, <<Float(2, 3), Float(0 - 1, 3), Float(0 - 1, 3), Float(2, 3)>>)

\* a covariance without an inverse: a matrix with determinant zero, or variances with a zero
NonInvertible(cov) ==
    IF Ndim(cov) = 2
    THEN Det(cov, Indices(cov.shape[1]), Indices(cov.shape[2])) = AsFloat(0)
    ELSE \E k \in 1..Len(cov.flat) : cov.flat[k] = AsFloat(0)

\* the covariance the last construction or covariance assignment was given
GivenCovariance ==
    IF outcome.op = "init"
    THEN LET e == norm(outcome.arg.error)
         IN  IF Ndim(e) < 2 THEN Array(e.shape, [k \in 1..Len(e.flat) |-> FMul(e.flat[k], e.flat[k])])
             ELSE e
    ELSE BroadcastTo(astype_float(outcome.arg), cost.cov.shape)

CovarianceGiven ==
    \/ outcome.op = "init"
    \/ outcome.op = "covariance" /\ CanBroadcast(outcome.arg, cost.cov.shape)

(* C12, as claimed: a covariance without an inverse, a matrix with zero
   determinant or a variance vector containing a zero, makes the
   construction and every covariance reassignment fail with an error, and no
   NormalConstraint holds a covariance without an inverse unless the last
   assignment of it raised. *)
C12_NonInvertibleRejected ==
    /\ (CovarianceGiven /\ NonInvertible(GivenCovariance)) => outcome.err # ""
    /\ (IsConstraint /\ NonInvertible(cost.cov)) => outcome.set # ""

\* the part of C12 that holds: a singular matrix raises LinAlgError
C12_SingularMatrixRejected ==
    (CovarianceGiven /\ Ndim(GivenCovariance) = 2 /\ NonInvertible(GivenCovariance))
        => outcome.err = "LinAlgError"

(* C13, as claimed: the ndata of every NormalConstraint is the number of
   constrained parameters, the length of its signature, for names given as
   one string or as a sequence and a value given as a scalar or an array. *)
C13_NdataCountsParameters ==
    IsConstraint => NormalConstraint_ndata(cost) = Fin(Len(Signature(cost)))

\* what holds: ndata is the length of the expected value as it was stored, and the
\* number of parameters whenever the value was given with one entry for each
C13_NdataCountsValues ==
    (IsConstraint /\ outcome.op = "init") =>
        /\ NormalConstraint_ndata(cost) = Fin(Len(norm(outcome.arg.value).flat))
        /\ Len(norm(outcome.arg.value).flat) = Len(Signature(cost))
              => NormalConstraint_ndata(cost) = Fin(Len(Signature(cost)))

\* a loss given by a name that is neither "linear" nor "soft_l1"
UnknownName(loss) == loss.str /\ loss.name # "linear" /\ loss.name # "soft_l1"

Constructed == outcome.op = "init"

(* C14: the construction of a LeastSquares with a loss given as a string
   other than "linear" or "soft_l1" fails with an error and leaves no
   object; with "linear", "soft_l1" or a callable (and data that fit
   together) it completes and the object holds that loss. *)
C14_UnknownLossRejected ==
    Constructed =>
        /\ UnknownName(outcome.arg.loss) => outcome.err = "ValueError" /\ cost = NoCost
        /\ (~UnknownName(outcome.arg.loss) /\ outcome.arg.yerror # TooLong) =>
              outcome.err = "" /\ cost # NoCost /\ cost.loss = outcome.arg.loss
        /\ cost # NoCost => ~UnknownName(cost.loss)

\* the name "huber" was given: ValueError and no object
C14_Witness ==
    /\ Constructed
    /\ outcome.arg.loss = Loss("huber")
    /\ outcome.err = "ValueError"
    /\ cost = NoCost

(***************************************************************************)
(* Verbose levels of sums.                                                 *)
(***************************************************************************)
\* the largest verbose level the constituents of the sum s have in the heap h
MaxOfConstituents(h, s) == Max({h[h[s].items[k]].verbose : k \in 1..Len(h[s].items)})

VerboseIsMax(h, s) == h[s].verbose = MaxOfConstituents(h, s)

IsConstituent(h, i, s) == \E k \in 1..Len(h[s].items) : h[s].items[k] = i

VerboseAssigned == last.op = "verbose"

(* C15, as claimed: the verbose level of a CostSum is the largest verbose
   level of its constituents right after its construction, and it still is
   after a verbose assignment on one of its constituents. *)
C15_VerboseFollowsConstituents ==
    /\ [](Added => VerboseIsMax(heap, last.sum))
    /\ [][\A s \in SumIds(heap) :
            (last'.op = "verbose" /\ IsConstituent(heap, last'.sum, s)
             /\ VerboseIsMax(heap, s)) => VerboseIsMax(heap', s)]_vars

(* C15, amended: the verbose level of a CostSum is the largest verbose level
   its constituents have when it is constructed; a later verbose assignment
   on any other object, a constituent included, leaves the level of the sum
   as it was. *)
C15_VerboseFixedAtConstruction ==
    /\ [](Added => VerboseIsMax(heap, last.sum))
    /\ [][last'.op = "verbose" =>
            \A s \in SumIds(heap) \ {last'.sum} : heap'[s].verbose = heap[s].verbose]_vars

\* a constituent of a sum built at level 1 has just been raised to level 2
C15_Witness ==
    /\ VerboseAssigned
    /\ \E s \in SumIds(heap) :
        /\ IsConstituent(heap, last.sum, s)
        /\ Len(heap[s].items) = 2
        /\ heap[s].verbose = 1
        /\ heap[last.sum].verbose = 2

(***************************************************************************)
(* What a call reports.                                                    *)
(***************************************************************************)
CalledCost == last.op = "__call__" /\ last.err = ""

\* how often the last call evaluated the object i, itself or as a constituent
Evaluations(i) ==
    LET self == heap[last.sum]
        items == IF self.kind = "CostSum" THEN self.items ELSE <<>>
    IN  (IF last.sum = i THEN 1 ELSE 0)
        + Cardinality({k \in 1..Len(items) : items[k] = i})

\* how many lines the last call printed for the object i
Reports(i) == Cardinality({j \in 1..Len(last.printed) : last.printed[j].by = i})

\* the heap with every verbose level set to 0
Quiet(h) == [k \in 1..Len(h) |-> Cost_set_verbose(h[k], 0)]

(* C16, as claimed: after a call, every object with verbose >= 1 has reported
   once for each of its evaluations, whether it was called itself or was
   evaluated as a constituent of the sum that was called. *)
C16_EveryEvaluationReported ==
    CalledCost => \A i \in 1..Len(heap) : heap[i].verbose >= 1 => Reports(i) = Evaluations(i)

(* C16, amended: a call of an object with verbose >= 1 prints exactly one
   line, the arguments and the result of that object; the constituents of a
   sum print nothing of their own, whatever their verbose level, and an
   object with verbose 0 prints nothing; the value returned is the value
   the call returns with every verbose level at 0. *)
C16_DirectCallReported ==
    CalledCost =>
        /\ last.printed = IF heap[last.sum].verbose >= 1
                          THEN <<Line(last.sum, last.args, last.r)>> ELSE <<>>
        /\ last.r = Cost_call(Quiet(heap), last.sum, last.args).r

\* a sum of two verbose constituents, called at verbose level 2, printed one line
C16_Witness ==
    /\ CalledCost
    /\ heap[last.sum].kind = "CostSum"
    /\ heap[last.sum].verbose = 2
    /\ Len(heap[last.sum].items) = 2
    /\ \A k \in 1..2 : heap[heap[last.sum].items[k]].verbose >= 1
    /\ Len(last.args) = 2
    /\ Len(last.printed) = 1

(***************************************************************************)
(* Calls of cost terms.                                                    *)
(***************************************************************************)
Evaluated == outcome.op = "evaluate"

(* C17: after a call of a cost term of any kind, completed or not, the term
   is as it was before the call: data, mask, active view, bin edges, loss,
   expected value and covariance; and a call that follows a call with the
   same arguments, no setter in between, returns the same value. *)
C17_CallLeavesTermUnchanged ==
    /\ [](Evaluated => cost = outcome.call.before)
    /\ [][(Evaluated /\ outcome'.op = "evaluate" /\ outcome'.arg = outcome.arg)
             => (outcome'.call.r = outcome.call.r /\ outcome'.err = outcome.err)]_vars

\* a masked histogram of weighted samples has been evaluated with scaling
C17_Witness ==
    /\ Evaluated /\ outcome.err = ""
    /\ cost.kind = "ExtendedBinnedNLL"
    /\ BinnedCost_weighted(cost)
    /\ cost.mask.kind = "index"
    /\ cost = outcome.call.before

(***************************************************************************)
(* Histograms of weighted samples.                                         *)
(***************************************************************************)
WeightedBinned == cost # NoCost /\ cost.kind \in BinnedKinds /\ BinnedCost_weighted(cost)

\* the bins a call uses, 1-based, in the order the mask gives them
ActiveBins == Kept(cost.mask, ArrLen(cost.data))

\* the (w, w2) pair of bin b as the data getter returns it
PairOf(b) == Row(BinnedCost_data(cost), b - 1)
ScaleOf(b) == FDiv(PairOf(b)[1], PairOf(b)[2])
EffectiveCount(b) == FMul(PairOf(b)[1], ScaleOf(b))

\* the model's integral over bin b for the parameter a: a * (xe[b+1]^2 - xe[b]^2)
BinIntegral(b, a) ==
    FMul(AsFloat(a), FSub(FMul(cost.xe.flat[b + 1], cost.xe.flat[b + 1]),
                          FMul(cost.xe.flat[b], cost.xe.flat[b])))

\* the expected count of the j-th active bin before the scaling
ExpectedCount(j, a) ==
    LET b == ActiveBins[j]
        integrals == [i \in 1..Len(ActiveBins) |-> BinIntegral(ActiveBins[i], a)]
        weights == [i \in 1..Len(ActiveBins) |-> PairOf(ActiveBins[i])[1]]
    IN  IF cost.kind = "ExtendedBinnedNLL" THEN BinIntegral(b, a)
        ELSE IF cost.mask.kind = "None" THEN FMul(FSum(weights), BinIntegral(b, a))
        ELSE FMul(FSum(weights), FDiv(BinIntegral(b, a), FSum(integrals)))

(* C18: a binned term given (w, w2) pairs stores for each bin the pair, the
   effective count w * s and the scale s = w / w2; a call of a BinnedNLL or
   an ExtendedBinnedNLL hands the kernel, for each active bin, the effective
   count in place of w and the expected count multiplied by the bin's s. *)
C18_WeightedBinsScaled ==
    WeightedBinned =>
        /\ outcome.op = "init" => BinnedCost_data(cost) = norm(outcome.arg.n)
        /\ \A b \in 1..ArrLen(cost.data) :
               Row(cost.data, b - 1) = PairOf(b) \o <<EffectiveCount(b), ScaleOf(b)>>
        /\ (Evaluated /\ outcome.err = "") =>
               /\ outcome.call.r.operands[1] =
                      [j \in 1..Len(ActiveBins) |-> EffectiveCount(ActiveBins[j])]
               /\ outcome.call.r.operands[2] =
                      [j \in 1..Len(ActiveBins) |->
                          FMul(ExpectedCount(j, outcome.arg[1]), ScaleOf(ActiveBins[j]))]

\* the pairs (10, 4) and (20, 9) are stored with the scales 10/4 and 20/9, and a
\* BinnedNLL over them has been evaluated on its first bin alone
C18_Witness ==
    /\ WeightedBinned
    /\ cost.kind = "BinnedNLL"
    /\ PairOf(1) = <<AsFloat(10), AsFloat(4)>> /\ PairOf(2) = <<AsFloat(20), AsFloat(9)>>
    /\ Column(cost.data, 3).flat[1] = <<5, 2>> /\ Column(cost.data, 3).flat[2] = <<20, 9>>
    /\ Evaluated /\ outcome.err = ""
    /\ cost.mask.kind = "bool"
    /\ outcome.call.r.operands[1] = <<AsFloat(25)>>

(***************************************************************************)
(* Assignments to slices of parameter views.                               *)
(***************************************************************************)
SliceAssigned == outcome.op = "setslice"

\* the number of parameters the slice of the last assignment selects
Selected == Len(SliceIndices(outcome.arg.key, MaxPar))

\* the value assigned is a sequence whose length is not the number selected
LengthDiffers == outcome.arg.value.t = "seq" /\ Len(outcome.arg.value.v) # Selected

StateUnchanged == cost.state = outcome.call.before

(* C19, as claimed: an assignment to a slice of a view (values, errors,
   fixed, limits) of a sequence whose length differs from the number of
   selected parameters raises ValueError and changes no parameter. *)
C19_LengthMismatchRejected ==
    (SliceAssigned /\ LengthDiffers) => (outcome.err = "ValueError" /\ StateUnchanged)

(* C19, amended: an assignment to a slice of a view of a sequence whose
   nesting depth differs from the depth of the view's elements (0 for a
   number, 1 for a pair of limits) and whose length differs from the number
   of selected parameters raises the ValueError of the length check and
   changes no parameter; a value of the depth of the view's elements is
   never rejected for its length: it is handed whole to every selected
   parameter. *)
C19_MismatchedSequenceRejected ==
    SliceAssigned =>
        /\ (LengthDiffers /\ ndim_of_value(outcome.arg.value) # outcome.arg.view.ndim)
               => (outcome.err = "ValueError" /\ outcome.set = "length" /\ StateUnchanged)
        /\ ndim_of_value(outcome.arg.value) = outcome.arg.view.ndim
               => /\ outcome.set # "length"
                  /\ [c |-> cost.state, err |-> outcome.err, at |-> outcome.set] =
                         set_each(outcome.arg.view, outcome.call.before,
                                  SliceIndices(outcome.arg.key, MaxPar), outcome.arg.value)

\* three values were assigned to the two-parameter slice of the values: rejected
C19_Witness ==
    /\ SliceAssigned
    /\ outcome.arg.view = View("ValueView", 0)
    /\ Selected = 2
    /\ outcome.arg.value = Sequence(<<Scalar(0), Scalar(1), Scalar(2)>>)
    /\ outcome.err = "ValueError"
    /\ outcome.call.before[1].value = 2
    /\ StateUnchanged

(***************************************************************************)
(* The paths of the numeric kernels.                                       *)
(***************************************************************************)
KernelCalled == outcome.op = "kernel"

AllAccelerated ==
    \A k \in 1..Len(outcome.arg.arrays) : outcome.arg.arrays[k] \in Accelerated

(* C20, as claimed: a kernel takes the accelerated path only when its input
   arrays have single or double precision; when any input array has another
   precision it takes the portable path. *)
C20_OtherPrecisionTakesPortablePath ==
    KernelCalled => (outcome.call.path = "numba" => AllAccelerated)

(* What the wrappers do: the accelerated path is taken exactly when numba is
   importable and the last array (x, mu or ym) has single or double
   precision, whatever the precision of the other arrays. *)
C20_PathFollowsLastArray ==
    KernelCalled =>
        (outcome.call.path = "numba" <=>
            (outcome.arg.numba
             /\ outcome.arg.arrays[Len(outcome.arg.arrays)] \in Accelerated))

\* the Poisson sum was handed counts of extended precision and took the numba path
C20_ExtendedCountsAccelerated ==
    /\ KernelCalled
    /\ outcome.arg.kernel = "sum_log_poisson"
    /\ outcome.arg.arrays = <<"float128", "float64">>
    /\ outcome.call.path = "numba"

(***************************************************************************)
(* Masked histograms of plain counts.                                      *)
(***************************************************************************)
MaskedCounts ==
    /\ Evaluated /\ outcome.err = ""
    /\ cost.kind \in BinnedKinds /\ ~BinnedCost_weighted(cost)
    /\ cost.mask.kind # "None"

\* the observed counts of the active bins and the model's integrals over them
ActiveCounts == [j \in 1..Len(ActiveBins) |-> cost.data.flat[ActiveBins[j]]]
ActiveIntegrals == [j \in 1..Len(ActiveBins) |-> BinIntegral(ActiveBins[j], outcome.arg[1])]

(* C21: a call of a BinnedNLL of plain counts with a mask set hands the
   kernel the active counts and, for each active bin, the expected count
   (sum of the active counts) * (integral of the bin / sum of the integrals
   of the active bins), so the expected counts sum to the active total; a
   call of an ExtendedBinnedNLL with a mask set hands the kernel the
   integrals of the active bins as the model gave them. *)
C21_MaskedProbabilitiesRenormalised ==
    MaskedCounts =>
        /\ outcome.call.r.operands[1] = ActiveCounts
        /\ cost.kind = "BinnedNLL" =>
               /\ outcome.call.r.operands[2] =
                      [j \in 1..Len(ActiveBins) |->
                          FMul(FSum(ActiveCounts),
                               FDiv(ActiveIntegrals[j], FSum(ActiveIntegrals)))]
               /\ FSum(outcome.call.r.operands[2]) = FSum(ActiveCounts)
        /\ cost.kind = "ExtendedBinnedNLL" => outcome.call.r.operands[2] = ActiveIntegrals

\* a BinnedNLL of the counts 1, 2 was evaluated on its first bin: one expected event
C21_Witness ==
    /\ MaskedCounts
    /\ cost.kind = "BinnedNLL"
    /\ cost.data.flat = <<AsFloat(1), AsFloat(2)>>
    /\ ActiveBins = <<1>>
    /\ outcome.arg[1] = 2
    /\ outcome.call.r.operands[2] = <<AsFloat(1)>>

(***************************************************************************)
(* The objective of a LeastSquares.                                        *)
(***************************************************************************)
LeastSquaresEvaluated ==
    Evaluated /\ outcome.err = "" /\ cost.kind = "LeastSquares" /\ cost.ndim = 1

\* ((y - model(x)) / yerror)^2 of the active points, the model being a * x * x
ResidualsSquared ==
    LET view == Masked(cost)
        a == AsFloat(outcome.arg[1])
    IN  [k \in 1..ArrLen(view) |->
            LET x == Row(view, k - 1)[1]
                y == Row(view, k - 1)[2]
                yerror == Row(view, k - 1)[3]
                z == FDiv(FSub(y, FMul(a, FMul(x, x))), yerror)
            IN  FMul(z, z)]

(* C22: after the construction of a LeastSquares and any assignments of its
   loss, a call applies the objective of the loss the getter returns: for
   "linear" the sum over the active points of ((y - model(x)) / yerror)^2,
   for "soft_l1" the sum of 2 * (sqrt(1 + z^2) - 1), and for a callable the
   sum of that callable applied to z^2. *)
C22_ObjectiveMatchesLoss ==
    LeastSquaresEvaluated =>
        /\ cost.loss = Loss("linear")
               => outcome.call.r = Kernel("number", <<FSum(ResidualsSquared)>>)
        /\ cost.loss = Loss("soft_l1")
               => outcome.call.r = Kernel("sum(2*(sqrt(1+z)-1))", <<ResidualsSquared>>)
        /\ ~cost.loss.str
               => outcome.call.r = Kernel("sum(loss(z))", <<<<cost.loss>>, ResidualsSquared>>)

\* the callable g, which only an assignment gives, was applied to the residuals of
\* one active point out of two
C22_Witness ==
    /\ LeastSquaresEvaluated
    /\ cost.loss = LossCallable("g")
    /\ cost.mask.kind = "bool"
    /\ ArrLen(cost.data) = 2
    /\ outcome.arg[1] = 2
    /\ outcome.call.r = Kernel("sum(loss(z))", <<<<LossCallable("g")>>, <<AsFloat(1)>>>>)

(***************************************************************************)
(* Assignments that fail.                                                  *)
(***************************************************************************)
(* C23, as claimed: a mask assignment on a MaskedCost that ends with an
   error leaves the stored mask and the active view as they were before
   the assignment. *)
C23_FailedMaskLeavesMask ==
    [][(cost # NoCost /\ outcome'.op = "mask" /\ outcome'.err # "")
          => (cost'.mask = cost.mask /\ Masked(cost') = Masked(cost))]_vars

(* What the setter does: a mask assignment that ends with an error leaves
   the data and the active view as they were. *)
C23_FailedMaskLeavesView ==
    [][(cost # NoCost /\ outcome'.op = "mask" /\ outcome'.err # "")
          => (cost'.data = cost.data /\ Masked(cost') = Masked(cost))]_vars

(* C24, as claimed: a covariance assignment on a NormalConstraint that fails
   because the new covariance has no inverse leaves the stored covariance
   and the stored inverse as they were before the assignment. *)
C24_FailedCovarianceLeavesCovariance ==
    [][(IsConstraint /\ outcome'.op = "covariance" /\ outcome'.err = "LinAlgError")
          => (cost'.cov = cost.cov /\ cost'.covinv = cost.covinv)]_vars

(* What the setter does: a covariance assignment that fails for want of an
   inverse leaves the stored inverse as it was. *)
C24_FailedCovarianceLeavesInverse ==
    [][(IsConstraint /\ outcome'.op = "covariance" /\ outcome'.err = "LinAlgError")
          => cost'.covinv = cost.covinv]_vars

(* C25, as claimed: a loss assignment on a LeastSquares that is rejected as
   an unknown name leaves the loss the getter returns and the objective of
   later calls as they were before the assignment. *)
C25_RejectedLossLeavesLoss ==
    [][(cost # NoCost /\ outcome'.op = "loss" /\ outcome'.err # "")
          => (cost'.loss = cost.loss /\ cost'.objective = cost.objective)]_vars

(* What the setter does: a rejected loss assignment leaves the objective of
   later calls as it was. *)
C25_RejectedLossLeavesObjective ==
    [][(cost # NoCost /\ outcome'.op = "loss" /\ outcome'.err # "")
          => cost'.objective = cost.objective]_vars

(***************************************************************************)
(* The encoding of a binned term.                                          *)
(***************************************************************************)
\* the encoding a term was built with, and the encoding of an assigned value
BuiltEncoding == IF BinnedCost_weighted(cost) THEN "pairs" ELSE "counts"
EncodingOf(shape) ==
    IF Len(shape) = 1 THEN "counts"
    ELSE IF Len(shape) = 2 /\ shape[2] = 2 THEN "pairs" ELSE "other"
CrossAssigned ==
    /\ cost # NoCost
    /\ cost.kind \in BinnedKinds
    /\ outcome.op = "data"
    /\ EncodingOf(outcome.arg) \in {"counts", "pairs"}
    /\ EncodingOf(outcome.arg) # BuiltEncoding

(* C26, as claimed: for every number of bins, assigning plain counts to a
   binned term built with weighted pairs, or weighted pairs to a term built
   with plain counts, ends with an error. *)
C26_CrossEncodingRejected ==
    CrossAssigned => outcome.err # ""

(* What the setters do: weighted pairs assigned to a term built with plain
   counts are rejected, and plain counts assigned to a term built with
   weighted pairs are rejected when the term has two bins. *)
C26_PairsIntoCountsRejected ==
    (CrossAssigned /\ (BuiltEncoding = "counts" \/ ArrLen(cost.data) = 2))
        => outcome.err # ""

(***************************************************************************)
(* Limits that are not a valid pair.                                       *)
(***************************************************************************)
\* a pair with its lower limit above its upper limit was assigned to one parameter
\* through the view of limits
InvalidPair(value) ==
    /\ value.t = "seq" /\ Len(value.v) = 2
    /\ IsReal(value.v[1]) /\ IsReal(value.v[2])
    /\ Less(value.v[2], value.v[1])
InvalidPairAssigned ==
    /\ IsMinuit
    /\ outcome.op = "setitem"
    /\ outcome.arg.view.kind = "LimitView"
    /\ InvalidPair(outcome.arg.value)
    /\ key2index(MaxPar, outcome.arg.key).err = ""
AssignedParameter == key2index(MaxPar, outcome.arg.key).i + 1
WithoutLimits(p) == [p EXCEPT !.lower = MinusInf, !.upper = PlusInf]

(* C27, as claimed: assigning a pair whose lower limit is above its upper
   limit to a parameter through the view of limits raises ValueError and
   leaves the limits, the value, the error and the fixed flag of the
   parameter as they were. *)
C27_InvalidLimitLeavesParameter ==
    InvalidPairAssigned
        => (/\ outcome.err = "ValueError"
            /\ cost.state[AssignedParameter] = outcome.call.before[AssignedParameter])

(* What the view does: the assignment raises ValueError, the parameter ends
   without limits and with the value, the error and the fixed flag it had,
   and the other parameters are as they were. *)
C27_InvalidLimitRemovesLimits ==
    InvalidPairAssigned
        => (/\ outcome.err = "ValueError"
            /\ \A k \in 1..MaxPar :
                  cost.state[k] = IF k = AssignedParameter
                                  THEN WithoutLimits(outcome.call.before[k])
                                  ELSE outcome.call.before[k])

(***************************************************************************)
(* Sums that are added to.                                                 *)
(***************************************************************************)
(* C28: an addition with an existing CostSum on either side leaves every
   object that existed before it, the CostSum with its list of
   constituents, its index maps and its signature included, as it was; the
   new sum is a further object. *)
C28_AdditionLeavesSumUnchanged ==
    [][(last' # last /\ (IsCostSum(heap, last'.lhs) \/ IsCostSum(heap, last'.rhs)))
          => (/\ Len(heap') >= Len(heap)
              /\ \A i \in 1..Len(heap) : heap'[i] = heap[i]
              /\ last'.err = "" => last'.sum > Len(heap))]_vars

\* a sum was added to on its left and the new sum has more constituents than it
C28_Witness ==
    /\ Added
    /\ IsCostSum(heap, last.lhs)
    /\ last.sum # last.lhs.v
    /\ Len(NewSum.items) > Len(heap[last.lhs.v].items)

====
